---- MODULE Spec2Model ----
(***************************************************************************)
(* A model of the crawl orchestrator of seo-crawler:                       *)
(*   backend/app/crawler/engine.py   CrawlEngine, _normalize_url           *)
(*   backend/app/crawler/robots.py   RobotsParser.is_allowed               *)
(*   backend/app/api/routes.py       start / pause / resume / stop         *)
(*                                                                         *)
(* The engine runs on one asyncio event loop: code between two awaits is   *)
(* one atomic step, and every await on I/O (HTTP fetch, Store read or      *)
(* write, queue join, pause gate) is a point where any other coroutine may *)
(* run.  An await that cannot block (an uncontended lock, a set event, a   *)
(* non-empty queue) does not yield and stays inside the step.              *)
(*                                                                         *)
(* URLs are sequences of one-character strings, so that the deduplication  *)
(* key is computed by the code's own string operations.                    *)
(***************************************************************************)
EXTENDS Integers, Sequences, FiniteSets, TLC

VARIABLES
  site,          \* the web site being crawled (fixed input of a behaviour)
  status,        \* Crawl.status in the Store
  pagesCrawled,  \* Crawl.pages_crawled in the Store
  completedAt,   \* Crawl.completed_at in the Store is set
  pages,         \* Page rows of the crawl in the Store, in insertion order
  registry,      \* active_crawls[crawl_id]: an engine, or NoEngine
  pend,          \* a route's Store commit in flight: the status it writes, or "none"
  ops,           \* control requests (pause / resume / stop) handled so far
  faults,        \* injected failures (Store, transport) so far
  timedOut,      \* the wall-clock budget of some run() has expired ("Crawl timed out")
  runpc,         \* per engine: position of run()
  resumeFlag,    \* per engine: run(resume_from_stopped=...)
  baseUrl,       \* per engine: self.base_url
  baseDomain,    \* per engine: self._base_domain
  visited,       \* per engine: self._visited_normalized
  queue,         \* per engine: items of self.queue
  unfinished,    \* per engine: self.queue._unfinished_tasks
  pageCount,     \* per engine: self._page_count
  gate,          \* per engine: self._paused is set (TRUE = not paused)
  stopped,       \* per engine: self._stopped
  finalStatus,   \* per engine: final_status captured by run()
  raised,        \* per engine: an exception was raised inside run()
  propagated,    \* per engine: an exception left run()
  wpc,           \* per engine and worker: position of _worker()
  wurl,          \* per engine and worker: the dequeued url
  wres,          \* per engine and worker: the record being saved / the counter being written
  lockOwner,     \* per engine: the worker holding self._lock, or NoWorker
  fnArg,         \* the arguments of a function applied on its own, << >> if none
  fnRes          \* << the value it returned >>, << >> before it has returned

vars == << site, status, pagesCrawled, completedAt, pages, registry, pend, ops, faults, timedOut,
           runpc, resumeFlag, baseUrl, baseDomain, visited, queue, unfinished, pageCount,
           gate, stopped, finalStatus, raised, propagated, wpc, wurl, wres,
           lockOwner, fnArg, fnRes >>

storeVars  == << status, pagesCrawled, completedAt, pages >>
engineVars == << runpc, resumeFlag, baseUrl, baseDomain, visited, queue, unfinished,
                 pageCount, gate, stopped, finalStatus, raised, propagated >>
workerVars == << wpc, wurl, wres >>
\* In the steps below a worker takes and releases the lock inside one step (an
\* uncontended acquire does not yield), and no function is applied on its own.
auxVars    == << lockOwner, fnArg, fnRes >>

----------------------------------------------------------------------------
(* Bounds of the model *)

\* CrawlEngine.MAX_PAGES is 10000 in the source; the model runs with a small cap.
MAX_PAGES == 2
\* CrawlEngine.CONCURRENCY is 10 in the source; the model runs this many workers.
CONCURRENCY == 2
\* Control requests (pause, resume, stop) in one behaviour.
MaxOps == 3
\* Injected failures (Store write, transport error) in one behaviour.
MaxFaults == 2

----------------------------------------------------------------------------
(* Strings *)

Lower(c) ==
  CASE c = "A" -> "a" [] c = "B" -> "b" [] c = "C" -> "c" [] c = "E" -> "e"
    [] c = "O" -> "o" [] c = "S" -> "s" [] c = "W" -> "w" [] c = "X" -> "x"
    [] OTHER -> c

\* str.lower()
LowerStr(s) == [i \in 1..Len(s) |-> Lower(s[i])]

\* str.startswith(p)
StartsWith(s, p) == Len(s) >= Len(p) /\ SubSeq(s, 1, Len(p)) = p

\* str.removeprefix(p): removes ONE occurrence of the prefix
RemovePrefix(s, p) == IF StartsWith(s, p) THEN SubSeq(s, Len(p) + 1, Len(s)) ELSE s

\* str.rstrip(c)
RECURSIVE RStrip(_, _)
RStrip(s, c) ==
  IF Len(s) > 0 /\ s[Len(s)] = c THEN RStrip(SubSeq(s, 1, Len(s) - 1), c) ELSE s

\* s.find(one of cs, from): the least index >= from holding a character of cs, 0 if none
Find(s, cs, from) ==
  LET hits == {i \in from..Len(s) : s[i] \in cs}
  IN  IF hits = {} THEN 0 ELSE CHOOSE i \in hits : \A j \in hits : i <= j

\* s.rfind(c): the greatest index holding c, 0 if none
RFind(s, c) ==
  LET hits == {i \in 1..Len(s) : s[i] = c}
  IN  IF hits = {} THEN 0 ELSE CHOOSE i \in hits : \A j \in hits : i >= j

Letters == {"a","b","c","d","e","f","g","h","i","j","k","l","m","n","o","p","q","r","s",
            "t","u","v","w","x","y","z","A","B","C","E","O","S","W","X"}
SchemeChars == Letters \cup {"0","1","2","3","4","5","6","7","8","9","+","-","."}

Www == <<"w","w","w",".">>

\* urlsplit: the index of the ':' that ends the scheme, 0 when the URL has no
\* scheme (no ':', a first character that is no letter, or a character before ':'
\* that no scheme may hold)
SchemeEnd(url) ==
  LET i == Find(url, {":"}, 1)
  IN  IF i > 1 /\ url[1] \in Letters /\ \A k \in 1..(i - 1) : url[k] \in SchemeChars
      THEN i ELSE 0

\* urlsplit: with rest starting "//", the index after the netloc (the first of
\* '/', '?', '#' from position 3, or the end), and 0 when rest has no netloc
NetlocEnd(rest) ==
  IF Len(rest) >= 2 /\ rest[1] = "/" /\ rest[2] = "/"
  THEN LET d == Find(rest, {"/", "?", "#"}, 3)
       IN  IF d = 0 THEN Len(rest) + 1 ELSE d
  ELSE 0

\* s.split(c, 1)[0]
CutAt(s, c) ==
  LET k == Find(s, {c}, 1)
  IN  IF k = 0 THEN s ELSE SubSeq(s, 1, k - 1)

\* urllib.parse.urlparse(url), the fields the engine reads (scheme, netloc, path):
\* the scheme is split off and lowercased, then the netloc, then the fragment and
\* the query are cut from the path.  The ';params' split of urlparse is left
\* out: no modelled URL holds ';'.
UrlParse(url) ==
  LET i    == SchemeEnd(url)
      rest == SubSeq(url, i + 1, Len(url))
      d    == NetlocEnd(rest)
  IN  [scheme |-> LowerStr(SubSeq(url, 1, i - 1)),
       netloc |-> IF d = 0 THEN << >> ELSE SubSeq(rest, 3, d - 1),
       path   |-> CutAt(CutAt(IF d = 0 THEN rest ELSE SubSeq(rest, d, Len(rest)), "#"), "?")]

\* _normalize_domain(netloc)
NormalizeDomain(netloc) == RemovePrefix(LowerStr(netloc), Www)

\* _normalize_url(url): the deduplication key
NormalizeUrl(url) ==
  LET parsed == UrlParse(LowerStr(url))
      netloc == RemovePrefix(parsed.netloc, Www)
      path   == RStrip(parsed.path, "/")
  IN  parsed.scheme \o <<":", "/", "/">> \o netloc \o path

SKIP_EXTENSIONS ==
  {
    <<".","j","s","o","n">>, <<".","x","m","l">>, <<".","r","s","s">>, <<".","a","t","o","m">>,
    <<".","r","d","f">>, <<".","c","s","s">>, <<".","j","s">>, <<".","m","j","s">>,
    <<".","t","s">>, <<".","m","a","p">>, <<".","p","d","f">>, <<".","d","o","c">>,
    <<".","d","o","c","x">>, <<".","x","l","s">>, <<".","x","l","s","x">>, <<".","p","p","t">>,
    <<".","p","p","t","x">>, <<".","z","i","p">>, <<".","g","z">>, <<".","t","a","r">>,
    <<".","r","a","r">>, <<".","7","z">>, <<".","b","z","2">>, <<".","j","p","g">>,
    <<".","j","p","e","g">>, <<".","p","n","g">>, <<".","g","i","f">>, <<".","s","v","g">>,
    <<".","w","e","b","p">>, <<".","i","c","o">>, <<".","b","m","p">>, <<".","t","i","f","f">>,
    <<".","a","v","i","f">>, <<".","w","o","f","f">>, <<".","w","o","f","f","2">>,
    <<".","t","t","f">>, <<".","e","o","t">>, <<".","o","t","f">>, <<".","m","p","3">>,
    <<".","m","p","4">>, <<".","a","v","i">>, <<".","m","o","v">>, <<".","w","m","v">>,
    <<".","f","l","v">>, <<".","w","e","b","m">>, <<".","o","g","g">>, <<".","w","a","v">>,
    <<".","e","x","e">>, <<".","d","m","g">>, <<".","a","p","k">>, <<".","i","c","s">>,
    <<".","v","c","f">>, <<".","c","s","v">>, <<".","t","x","t">>, <<".","l","o","g">>
  }

SKIP_PATH_PREFIXES ==
  <<
    <<"/","w","p","-","j","s","o","n","/">>, <<"/","w","p","-","j","s","o","n">>,
    <<"/","f","e","e","d","/">>, <<"/","f","e","e","d">>,
    <<"/","x","m","l","r","p","c",".","p","h","p">>,
    <<"/","w","p","-","a","d","m","i","n","/">>, <<"/","a","p","i","/">>,
    <<"/","_","a","p","i","/">>
  >>

\* CrawlEngine._should_skip_url(url)
ShouldSkipUrl(url) ==
  LET path   == LowerStr(UrlParse(url).path)
      dotPos == RFind(path, ".")
  IN  \/ dotPos # 0 /\ SubSeq(path, dotPos, Len(path)) \in SKIP_EXTENSIONS
      \/ \E k \in 1..Len(SKIP_PATH_PREFIXES) : StartsWith(path, SKIP_PATH_PREFIXES[k])

\* RobotsParser.is_allowed(url), over the parser's list self.disallowed
IsAllowed(disallowed, url) ==
  LET path == UrlParse(url).path
  IN  ~ \E k \in 1..Len(disallowed) : StartsWith(path, disallowed[k])

----------------------------------------------------------------------------
(* RobotsParser._parse.  A robots.txt is the sequence of its lines that hold a  *)
(* ':' and are no comment, each already split at the first ':' into the key     *)
(* (stripped and lowercased) and the value (stripped).                          *)

Star     == <<"*">>
OwnAgent == <<"S","E","O","C","r","a","w","l","e","r","B","o","t">>

\* {"allow": [], "disallow": []}
NoRules == [allow |-> << >>, disallow |-> << >>]

\* the parser before the first line: current_agents, self._agent_rules,
\* self.disallowed, self.sitemaps
ParseStart ==
  [agents |-> << >>, rules |-> << >>, disallowed |-> << >>, sitemaps |-> << >>]

\* the rules dict of an agent key, created empty when the key is new
RulesOf(rules, key) == IF key \in DOMAIN rules THEN rules[key] ELSE NoRules

\* for agent in current_agents: append value to the agent's "allow" or "disallow"
\* list (an empty value is not appended, the agent's entry is still created)
RECURSIVE AddRule(_, _, _, _)
AddRule(rules, agents, field, value) ==
  IF agents = << >> THEN rules
  ELSE LET key == LowerStr(Head(agents))
           old == RulesOf(rules, key)
           new == IF value = << >> THEN old
                  ELSE IF field = "allow"
                  THEN [old EXCEPT !.allow = Append(@, value)]
                  ELSE [old EXCEPT !.disallow = Append(@, value)]
           rs  == [k \in DOMAIN rules \cup {key} |-> IF k = key THEN new ELSE rules[k]]
       IN  AddRule(rs, Tail(agents), field, value)

\* One line of the loop.  On a User-agent line current_agents is emptied when it
\* is empty or when self._agent_rules.get(<last agent>) is truthy: the value is
\* the agent's dict {"allow": [...], "disallow": [...]}, which has two keys and
\* so is truthy as soon as the agent has an entry.
ParseLine(st, line) ==
  CASE line.key = "user-agent" ->
         LET last == st.agents[Len(st.agents)]
             cur  == IF st.agents = << >> \/ LowerStr(last) \in DOMAIN st.rules
                     THEN << >> ELSE st.agents
         IN  [st EXCEPT !.agents = Append(cur, line.value),
                        !.rules  = AddRule(@, << line.value >>, "allow", << >>)]
    [] line.key = "disallow" /\ st.agents # << >> ->
         [st EXCEPT !.rules = AddRule(@, st.agents, "disallow", line.value),
                    !.disallowed =
                       IF /\ \E k \in 1..Len(st.agents) : st.agents[k] \in {Star, OwnAgent}
                          /\ line.value # << >>
                       THEN Append(@, line.value) ELSE @]
    [] line.key = "allow" /\ st.agents # << >> ->
         [st EXCEPT !.rules = AddRule(@, st.agents, "allow", line.value)]
    [] line.key = "sitemap" ->
         [st EXCEPT !.sitemaps = Append(@, line.value)]
    [] OTHER -> st

\* RobotsParser._parse(content)
RECURSIVE ParseFrom(_, _)
ParseFrom(st, lines) ==
  IF lines = << >> THEN st ELSE ParseFrom(ParseLine(st, Head(lines)), Tail(lines))

Parse(lines) == ParseFrom(ParseStart, lines)

\* a line of robots.txt
Line(key, value) == [key |-> key, value |-> value]

----------------------------------------------------------------------------
(* SEOAnalyzer: an issue is {"severity": ..., "type": ...} (the message is left *)
(* out), self.issues is the list of the issues in the order they were emitted.   *)

Issue(severity, type) == [severity |-> severity, type |-> type]

\* the deduction of one issue in _calculate_score
Penalty(issue) ==
  CASE issue.severity = "critical" -> 15
    [] issue.severity = "warning"  -> 7
    [] issue.severity = "info"     -> 2
    [] OTHER                       -> 0

\* the loop of _calculate_score over self.issues, from score
RECURSIVE Deduct(_, _)
Deduct(score, issues) ==
  IF issues = << >> THEN score
  ELSE Deduct(score - Penalty(Head(issues)), Tail(issues))

Min2(a, b) == IF a <= b THEN a ELSE b
Max2(a, b) == IF a >= b THEN a ELSE b

\* (variant) the score is returned without the clamp
CalculateScore_NoClamp(issues) == Deduct(100, issues)

\* SEOAnalyzer._calculate_score()
CalculateScore(issues) == Max2(0, Min2(100, Deduct(100, issues)))

----------------------------------------------------------------------------
(* The crawled web: what the HTTP client, robots.txt and the sitemaps return *)

Http   == <<"h","t","t","p",":","/","/">>
HostEx == <<"e",".","x">>
U_root == Http \o HostEx
U_a    == Http \o HostEx \o <<"/","a">>
U_b    == Http \o HostEx \o <<"/","b">>
\* /a/ has the deduplication key of /a
U_aSlash == U_a \o <<"/">>
\* another host
HostOff == <<"o",".","x">>
U_off   == Http \o HostOff
U_offa  == Http \o HostOff \o <<"/","a">>
\* URLs of the skip lists
U_pdf   == Http \o HostEx \o <<"/","a",".","p","d","f">>
U_api   == Http \o HostEx \o <<"/","a","p","i","/","x">>
\* URLs under /p/ (disallowed by the robots.txt below) and outside it
U_pb    == Http \o HostEx \o <<"/","p","/","b">>
U_pc    == Http \o HostEx \o <<"/","p","/","c">>
U_qa    == Http \o HostEx \o <<"/","q","/","a">>
U_r     == Http \o HostEx \o <<"/","r">>

\* "plain": / links to /a and /b, /a links to /b, the sitemap lists /a
\* "nomap": / links to /a, there is no sitemap
SiteNames == {"plain", "nomap"}

\* "offdom": / links to /a, which redirects to the other host (whose page links /b)
\* "slash":  / links to /a and /a/, and /a redirects to /a/
\* "err":    / links to /a, which answers 404 with a body that links /b
\* "mixed":  / links to the other host, to a .pdf, to /api/x and to /a
\* "moved":  the project URL is on the other host and redirects to http://e.x;
\*           / links to the other host's /a and to /a, which redirects to /a/
WebSites == {"offdom", "slash", "err", "mixed", "moved"}

\* robots.txt is "User-agent: *" / "Disallow: /p/" on each of
\* "robots":   / links to /q/a and /p/b
\* "redir":    / links to /r, which redirects to /p/c
\* "ignore":   as "robots", the engine constructed with ignore_robots=True
RobotsSites == {"robots", "redir", "ignore"}

\* Project.url, the argument of CrawlEngine(crawl_id, base_url)
SiteStart(s) == IF s = "moved" THEN U_off ELSE U_root
\* str(resp.url) of the start URL in _resolve_start_url
SiteResolved(s) == U_root
\* the lines of GET /robots.txt (none: no robots.txt)
SiteRobotsTxt(s) ==
  IF s \in RobotsSites
  THEN << Line("user-agent", Star), Line("disallow", <<"/","p","/">>) >>
  ELSE << >>
\* RobotsParser.disallowed after fetch()
SiteDisallowed(s) == Parse(SiteRobotsTxt(s)).disallowed
\* the ignore_robots argument of CrawlEngine(...)
SiteIgnoreRobots(s) == s = "ignore"
\* the list SitemapParser.fetch() returns
SiteSitemap(s) == IF s = "plain" THEN << U_a >> ELSE << >>

\* a 200 text/html response without redirect
Html(url, links) ==
  [final |-> url, redirected |-> FALSE, status |-> 200, html |-> TRUE, links |-> links]

\* a 200 text/html response reached through a redirect to final
Redirect(final, links) ==
  [final |-> final, redirected |-> TRUE, status |-> 200, html |-> TRUE, links |-> links]

\* a text/html response with an error status and a body that holds links
ErrorPage(url, code, links) ==
  [final |-> url, redirected |-> FALSE, status |-> code, html |-> TRUE, links |-> links]

\* the issues SEOAnalyzer(url, html, ...).analyze() emits for the HTML of a page
\* (the modelled pages have no <title> and no JSON-LD block; the analyzer's
\* other checks are left out here)
SiteIssues(s, url) ==
  << Issue("critical", "missing_title"), Issue("info", "no_schema_markup") >>

\* The response of client.get(url) with follow_redirects=True:
\*   final = str(resp.url), redirected = len(resp.history) > 0,
\*   status = resp.status_code, html = "text/html" in content-type,
\*   links = the URLs link discovery resolves from the page (urljoin already applied)
Respond(s, url) ==
  CASE s = "plain" /\ url = U_root -> Html(url, << U_a, U_b >>)
    [] s = "plain" /\ url = U_a    -> Html(url, << U_b >>)
    [] s = "nomap" /\ url = U_root -> Html(url, << U_a >>)
    [] s = "offdom" /\ url = U_root -> Html(url, << U_a >>)
    [] s = "offdom" /\ url = U_a    -> Redirect(U_off, << U_b >>)
    [] s = "slash" /\ url = U_root  -> Html(url, << U_a, U_aSlash >>)
    [] s = "slash" /\ url = U_a     -> Redirect(U_aSlash, << >>)
    [] s = "err" /\ url = U_root    -> Html(url, << U_a >>)
    [] s = "err" /\ url = U_a       -> ErrorPage(url, 404, << U_b >>)
    [] s = "mixed" /\ url = U_root  -> Html(url, << U_offa, U_pdf, U_api, U_a >>)
    [] s = "moved" /\ url = U_root  -> Html(url, << U_offa, U_a >>)
    [] s = "moved" /\ url = U_a     -> Redirect(U_aSlash, << >>)
    [] s \in {"robots", "ignore"} /\ url = U_root -> Html(url, << U_qa, U_pb >>)
    [] s = "redir" /\ url = U_root  -> Html(url, << U_r >>)
    [] s = "redir" /\ url = U_r     -> Redirect(U_pc, << >>)
    [] OTHER                       -> Html(url, << >>)

----------------------------------------------------------------------------
(* Engines and workers *)

\* Engine instances that may exist at once for the one crawl id
MaxEngines == 2
Engines == 1..MaxEngines
Workers == 1..CONCURRENCY
NoEngine == 0
NoWorker == 0
NoUrl == << >>
NoRes == [url |-> NoUrl, status |-> 0, kind |-> "none", count |-> 0]

\* CrawlEngine._is_visited(url)
IsVisited(vis, url) == NormalizeUrl(url) \in vis

\* CrawlEngine._mark_visited(url)
MarkVisited(vis, url) == vis \cup {NormalizeUrl(url)}

\* (variant) _enqueue without the skip lists
Enqueue_NoSkipLists(q, vis, cnt, dom, url) ==
  IF /\ ~IsVisited(vis, url)
     /\ cnt < MAX_PAGES
     /\ NormalizeDomain(UrlParse(url).netloc) = dom
  THEN Append(q, url)
  ELSE q

\* (variant) _enqueue without the domain test
Enqueue_AnyDomain(q, vis, cnt, dom, url) ==
  IF /\ ~IsVisited(vis, url)
     /\ cnt < MAX_PAGES
     /\ ~ShouldSkipUrl(url)
  THEN Append(q, url)
  ELSE q

\* CrawlEngine._enqueue(url), on the queue's items (asyncio.Queue() is unbounded)
Enqueue(q, vis, cnt, dom, url) ==
  IF /\ ~IsVisited(vis, url)
     /\ cnt < MAX_PAGES
     /\ NormalizeDomain(UrlParse(url).netloc) = dom
     /\ ~ShouldSkipUrl(url)
  THEN Append(q, url)
  ELSE q

\* _enqueue over a list of URLs, in order
RECURSIVE EnqueueAll(_, _, _, _, _)
EnqueueAll(q, vis, cnt, dom, urls) ==
  IF urls = << >> THEN q
  ELSE EnqueueAll(Enqueue(q, vis, cnt, dom, Head(urls)), vis, cnt, dom, Tail(urls))

\* sitemap_urls[:self.MAX_PAGES]
Prefix(urls, n) == SubSeq(urls, 1, IF Len(urls) < n THEN Len(urls) ELSE n)

\* asyncio.Event.set(): every waiter of the pause gate is made runnable
Wake(pcs) ==
  [w \in Workers |-> CASE pcs[w] = "wait1" -> "get"
                       [] pcs[w] = "wait2" -> "admit"
                       [] OTHER -> pcs[w]]

\* an engine object exists and its run() has not exited
Alive(e) == runpc[e] \notin {"idle", "scheduled", "exited"}

\* the worker holds a dequeued url it has not acknowledged (it is inside the try block)
InTry(pc) == pc \in {"wait2", "admit", "fetch", "save", "upd"}

\* the state after POST /crawls for a site of S: the crawl row is "pending" and
\* the background task of engine 1 is scheduled
Boot(S) ==
  /\ site \in S
  /\ status = "pending"
  /\ pagesCrawled = 0
  /\ completedAt = FALSE
  /\ pages = << >>
  /\ registry = NoEngine
  /\ pend = "none"
  /\ ops = 0
  /\ faults = 0
  /\ timedOut = FALSE
  /\ runpc = [e \in Engines |-> IF e = 1 THEN "scheduled" ELSE "idle"]
  /\ resumeFlag = [e \in Engines |-> FALSE]
  /\ baseUrl = [e \in Engines |-> NoUrl]
  /\ baseDomain = [e \in Engines |-> NoUrl]
  /\ visited = [e \in Engines |-> {}]
  /\ queue = [e \in Engines |-> << >>]
  /\ unfinished = [e \in Engines |-> 0]
  /\ pageCount = [e \in Engines |-> 0]
  /\ gate = [e \in Engines |-> TRUE]
  /\ stopped = [e \in Engines |-> FALSE]
  /\ finalStatus = [e \in Engines |-> "none"]
  /\ raised = [e \in Engines |-> FALSE]
  /\ propagated = [e \in Engines |-> FALSE]
  /\ wpc = [e \in Engines |-> [w \in Workers |-> "none"]]
  /\ wurl = [e \in Engines |-> [w \in Workers |-> NoUrl]]
  /\ wres = [e \in Engines |-> [w \in Workers |-> NoRes]]
  /\ lockOwner = [e \in Engines |-> NoWorker]

\* no function is being applied on its own
NoCall == fnArg = << >> /\ fnRes = << >>

Init == Boot(SiteNames) /\ NoCall

----------------------------------------------------------------------------
(* CrawlEngine.run *)

\* a failure may still be injected
CanFail == faults < MaxFaults

\* the engine object is dropped when run() returns: its fields no longer matter
Drop(e) ==
  /\ visited' = [visited EXCEPT ![e] = {}]
  /\ queue' = [queue EXCEPT ![e] = << >>]
  /\ unfinished' = [unfinished EXCEPT ![e] = 0]
  /\ pageCount' = [pageCount EXCEPT ![e] = 0]
  /\ gate' = [gate EXCEPT ![e] = TRUE]
  /\ stopped' = [stopped EXCEPT ![e] = FALSE]
  /\ baseUrl' = [baseUrl EXCEPT ![e] = NoUrl]
  /\ baseDomain' = [baseDomain EXCEPT ![e] = NoUrl]
  /\ wpc' = [wpc EXCEPT ![e] = [w \in Workers |-> "none"]]
  /\ wurl' = [wurl EXCEPT ![e] = [w \in Workers |-> NoUrl]]
  /\ wres' = [wres EXCEPT ![e] = [w \in Workers |-> NoRes]]

\* The background task starts: CrawlEngine.__init__, then run() up to its first
\* await: the engine registers itself and begins the write of status "running".
RunBegin(e) ==
  /\ runpc[e] = "scheduled"
  /\ runpc' = [runpc EXCEPT ![e] = "setRunning"]
  /\ registry' = e
  /\ baseUrl' = [baseUrl EXCEPT ![e] = RStrip(SiteStart(site), "/")]
  /\ baseDomain' = [baseDomain EXCEPT ![e] = NormalizeDomain(UrlParse(SiteStart(site)).netloc)]
  /\ visited' = [visited EXCEPT ![e] = {}]
  /\ queue' = [queue EXCEPT ![e] = << >>]
  /\ unfinished' = [unfinished EXCEPT ![e] = 0]
  /\ pageCount' = [pageCount EXCEPT ![e] = 0]
  /\ gate' = [gate EXCEPT ![e] = TRUE]
  /\ stopped' = [stopped EXCEPT ![e] = FALSE]
  /\ finalStatus' = [finalStatus EXCEPT ![e] = "none"]
  /\ raised' = [raised EXCEPT ![e] = FALSE]
  /\ propagated' = [propagated EXCEPT ![e] = FALSE]
  /\ UNCHANGED << auxVars, site, timedOut, storeVars, pend, ops, faults, resumeFlag, workerVars >>

\* _update_crawl(status="running", started_at=...) commits
RunSetRunning(e) ==
  /\ runpc[e] = "setRunning"
  /\ status' = "running"
  /\ runpc' = [runpc EXCEPT ![e] = "resolve"]
  /\ UNCHANGED << auxVars, site, timedOut, pagesCrawled, completedAt, pages, registry, pend, ops,
                  faults, resumeFlag, baseUrl, baseDomain, visited, queue, unfinished,
                  pageCount, gate, stopped, finalStatus, raised, propagated, workerVars >>

\* _update_crawl(status="running") raises: the call is outside the try block, so
\* the exception leaves run() and neither the except nor the finally clause runs
RunSetRunningFails(e) ==
  /\ runpc[e] = "setRunning"
  /\ CanFail
  /\ faults' = faults + 1
  /\ runpc' = [runpc EXCEPT ![e] = "exited"]
  /\ raised' = [raised EXCEPT ![e] = TRUE]
  /\ propagated' = [propagated EXCEPT ![e] = TRUE]
  /\ Drop(e)
  /\ UNCHANGED << auxVars, site, timedOut, storeVars, registry, pend, ops, resumeFlag,
                  finalStatus >>

\* _resolve_start_url() returns: the start URL's final URL decides the base domain
RunResolve(e) ==
  /\ runpc[e] = "resolve"
  /\ LET domain      == UrlParse(SiteStart(site)).netloc
         finalUrl    == RStrip(SiteResolved(site), "/")
         finalDomain == UrlParse(finalUrl).netloc
     IN  /\ baseUrl' = [baseUrl EXCEPT ![e] =
                          IF finalDomain # domain \/ finalUrl # baseUrl[e]
                          THEN finalUrl ELSE baseUrl[e]]
         /\ baseDomain' = [baseDomain EXCEPT ![e] =
                          IF finalDomain # domain
                          THEN NormalizeDomain(finalDomain) ELSE baseDomain[e]]
  /\ runpc' = [runpc EXCEPT ![e] = IF resumeFlag[e] THEN "preload" ELSE "seed"]
  /\ UNCHANGED << auxVars, site, timedOut, storeVars, registry, pend, ops, faults, resumeFlag,
                  visited, queue, unfinished, pageCount, gate, stopped, finalStatus,
                  raised, propagated, workerVars >>

\* resume_from_stopped: select(Page.url) returns; every saved URL is marked visited
\* and the page counter becomes the number of visited keys
RunPreload(e) ==
  /\ runpc[e] = "preload"
  /\ LET vis == {NormalizeUrl(pages[i].url) : i \in 1..Len(pages)}
     IN  /\ visited' = [visited EXCEPT ![e] = vis]
         /\ pageCount' = [pageCount EXCEPT ![e] = Cardinality(vis)]
  /\ runpc' = [runpc EXCEPT ![e] = "seed"]
  /\ UNCHANGED << auxVars, site, timedOut, storeVars, registry, pend, ops, faults, resumeFlag,
                  baseUrl, baseDomain, queue, unfinished, gate, stopped, finalStatus,
                  raised, propagated, workerVars >>

\* robots.txt and the sitemaps are fetched and stored, the queue is seeded, the
\* workers are created and run() waits on queue.join().  (The fetches and the two
\* Store updates between them read and write nothing the other coroutines use, so
\* they are one step; their failure is RunBodyFails.)
RunSeed(e) ==
  /\ runpc[e] = "seed"
  /\ LET q0 == Enqueue(queue[e], visited[e], pageCount[e], baseDomain[e], baseUrl[e])
         q1 == EnqueueAll(q0, visited[e], pageCount[e], baseDomain[e],
                          Prefix(SiteSitemap(site), MAX_PAGES))
     IN  /\ queue' = [queue EXCEPT ![e] = q1]
         /\ unfinished' = [unfinished EXCEPT ![e] = Len(q1)]
  /\ wpc' = [wpc EXCEPT ![e] = [w \in Workers |-> "loop"]]
  /\ runpc' = [runpc EXCEPT ![e] = "join"]
  /\ UNCHANGED << auxVars, site, timedOut, storeVars, registry, pend, ops, faults, resumeFlag,
                  baseUrl, baseDomain, visited, pageCount, gate, stopped, finalStatus,
                  raised, propagated, wurl, wres >>

\* an exception in the try block before the workers start (a Store read or update
\* raises): the except clause begins the write of status "failed"
RunBodyFails(e) ==
  /\ runpc[e] \in {"resolve", "preload", "seed"}
  /\ CanFail
  /\ faults' = faults + 1
  /\ raised' = [raised EXCEPT ![e] = TRUE]
  /\ runpc' = [runpc EXCEPT ![e] = "failing"]
  /\ UNCHANGED << auxVars, site, timedOut, storeVars, registry, pend, ops, resumeFlag, baseUrl,
                  baseDomain, visited, queue, unfinished, pageCount, gate, stopped,
                  finalStatus, propagated, workerVars >>

\* w.cancel() for every worker: a worker that has not returned is cancelled at its
\* await, and one cancelled inside the try block runs its finally (task_done)
CancelWorkers(e) ==
  /\ wpc' = [wpc EXCEPT ![e] =
               [w \in Workers |-> IF wpc[e][w] = "done" THEN "done" ELSE "cancelled"]]
  /\ unfinished' = [unfinished EXCEPT ![e] =
               @ - Cardinality({w \in Workers : InTry(wpc[e][w])})]
  /\ wurl' = [wurl EXCEPT ![e] = [w \in Workers |-> NoUrl]]
  /\ wres' = [wres EXCEPT ![e] = [w \in Workers |-> NoRes]]

\* queue.join() returns: every queued URL has been acknowledged
RunJoinReturns(e) ==
  /\ runpc[e] = "join"
  /\ unfinished[e] = 0
  /\ CancelWorkers(e)
  /\ runpc' = [runpc EXCEPT ![e] = "gather"]
  /\ UNCHANGED << auxVars, site, timedOut, storeVars, registry, pend, ops, faults, resumeFlag,
                  baseUrl, baseDomain, visited, queue, pageCount, gate, stopped,
                  finalStatus, raised, propagated >>

\* the worker is ready to run: it waits on no I/O, gate or empty queue
Runnable(e, w) ==
  \/ wpc[e][w] \in {"loop", "admit"}
  \/ wpc[e][w] = "get" /\ queue[e] # << >>

\* asyncio.wait_for(..., timeout=7200) expires: the wall-clock budget is used up.
\* Time passes only while every task waits, so no worker is ready to run.
RunTimeout(e) ==
  /\ runpc[e] = "join"
  /\ unfinished[e] > 0
  /\ \A w \in Workers : ~Runnable(e, w)
  /\ CancelWorkers(e)
  /\ timedOut' = TRUE
  /\ runpc' = [runpc EXCEPT ![e] = "gather"]
  /\ UNCHANGED << auxVars, site, storeVars, registry, pend, ops, faults, resumeFlag, baseUrl,
                  baseDomain, visited, queue, pageCount, gate, stopped, finalStatus,
                  raised, propagated >>

\* gather() returns: the final status is chosen and its write begins
RunGather(e) ==
  /\ runpc[e] = "gather"
  /\ finalStatus' = [finalStatus EXCEPT ![e] =
                       IF stopped[e] THEN "stopped" ELSE "completed"]
  /\ runpc' = [runpc EXCEPT ![e] = "final"]
  /\ UNCHANGED << auxVars, site, timedOut, storeVars, registry, pend, ops, faults, resumeFlag,
                  baseUrl, baseDomain, visited, queue, unfinished, pageCount, gate,
                  stopped, raised, propagated, workerVars >>

\* _update_crawl(status=final_status, completed_at, pages_crawled, pages_total) commits
RunFinal(e) ==
  /\ runpc[e] = "final"
  /\ status' = finalStatus[e]
  /\ completedAt' = TRUE
  /\ pagesCrawled' = pageCount[e]
  /\ runpc' = [runpc EXCEPT ![e] = "exiting"]
  /\ UNCHANGED << auxVars, site, timedOut, pages, registry, pend, ops, faults, resumeFlag,
                  baseUrl, baseDomain, visited, queue, unfinished, pageCount, gate,
                  stopped, finalStatus, raised, propagated, workerVars >>

\* the final _update_crawl raises: the except clause begins the write of "failed"
RunFinalFails(e) ==
  /\ runpc[e] = "final"
  /\ CanFail
  /\ faults' = faults + 1
  /\ raised' = [raised EXCEPT ![e] = TRUE]
  /\ runpc' = [runpc EXCEPT ![e] = "failing"]
  /\ UNCHANGED << auxVars, site, timedOut, storeVars, registry, pend, ops, resumeFlag, baseUrl,
                  baseDomain, visited, queue, unfinished, pageCount, gate, stopped,
                  finalStatus, propagated, workerVars >>

\* except: _update_crawl(status="failed", completed_at=...) commits
RunFailed(e) ==
  /\ runpc[e] = "failing"
  /\ status' = "failed"
  /\ completedAt' = TRUE
  /\ runpc' = [runpc EXCEPT ![e] = "exiting"]
  /\ UNCHANGED << auxVars, site, timedOut, pagesCrawled, pages, registry, pend, ops, faults,
                  resumeFlag, baseUrl, baseDomain, visited, queue, unfinished,
                  pageCount, gate, stopped, finalStatus, raised, propagated, workerVars >>

\* finally: active_crawls.pop(self.crawl_id, None), then run() returns.  The pop
\* removes whatever engine the registry holds for the crawl id.
RunExit(e) ==
  /\ runpc[e] = "exiting"
  /\ registry' = NoEngine
  /\ runpc' = [runpc EXCEPT ![e] = "exited"]
  /\ Drop(e)
  /\ UNCHANGED << auxVars, site, timedOut, storeVars, pend, ops, faults, resumeFlag, finalStatus,
                  raised, propagated >>

\* the write of "failed" raises inside the except clause: the finally clause still
\* pops the registry entry, and the exception leaves run()
RunFailedFails(e) ==
  /\ runpc[e] = "failing"
  /\ CanFail
  /\ faults' = faults + 1
  /\ registry' = NoEngine
  /\ propagated' = [propagated EXCEPT ![e] = TRUE]
  /\ runpc' = [runpc EXCEPT ![e] = "exited"]
  /\ Drop(e)
  /\ UNCHANGED << auxVars, site, timedOut, storeVars, pend, ops, resumeFlag, finalStatus, raised >>

----------------------------------------------------------------------------
(* CrawlEngine._worker and CrawlEngine._crawl_page *)

\* (variant) the url is acknowledged twice
TaskDone_Twice(e, w) ==
  /\ unfinished' = [unfinished EXCEPT ![e] = @ - 2]
  /\ wpc' = [wpc EXCEPT ![e][w] = "loop"]
  /\ wurl' = [wurl EXCEPT ![e][w] = NoUrl]
  /\ wres' = [wres EXCEPT ![e][w] = NoRes]

\* finally: self.queue.task_done(), and the worker is back at the head of its loop
TaskDone(e, w) ==
  /\ unfinished' = [unfinished EXCEPT ![e] = @ - 1]
  /\ wpc' = [wpc EXCEPT ![e][w] = "loop"]
  /\ wurl' = [wurl EXCEPT ![e][w] = NoUrl]
  /\ wres' = [wres EXCEPT ![e][w] = NoRes]

\* the cap test and mark-visited under the lock: the url may be crawled
Admitted(vis, cnt, url) == ~(IsVisited(vis, url) \/ cnt >= MAX_PAGES)

\* the robots test of the worker: not self.ignore_robots and not is_allowed(url)
\* (robots_parser is set before the workers start; the routes construct every
\* engine with the default ignore_robots=False, the flag is an argument of
\* CrawlEngine)
RobotsBlocked(url) ==
  ~SiteIgnoreRobots(site) /\ ~IsAllowed(SiteDisallowed(site), url)

\* From the lock to the HTTP request: under the lock, drop the url if its key is
\* visited or the cap is reached, else mark it; drop it if robots.txt disallows
\* it; else client.get(url) is sent.
Admit(e, w, url) ==
  IF ~Admitted(visited[e], pageCount[e], url)
  THEN /\ TaskDone(e, w)
       /\ UNCHANGED visited
  ELSE /\ visited' = [visited EXCEPT ![e] = MarkVisited(@, url)]
       /\ IF RobotsBlocked(url)
          THEN TaskDone(e, w)
          ELSE /\ wpc' = [wpc EXCEPT ![e][w] = "fetch"]
               /\ wurl' = [wurl EXCEPT ![e][w] = url]
               /\ UNCHANGED << unfinished, wres >>

\* queue.get() has returned url: the stop flag is tested again, then the pause
\* gate, and with the gate open the worker goes through the lock to the request
Take(e, w) ==
  LET url == Head(queue[e])
  IN  /\ queue' = [queue EXCEPT ![e] = Tail(@)]
      /\ IF stopped[e]
         THEN TaskDone(e, w) /\ UNCHANGED visited
         ELSE IF ~gate[e]
         THEN /\ wpc' = [wpc EXCEPT ![e][w] = "wait2"]
              /\ wurl' = [wurl EXCEPT ![e][w] = url]
              /\ UNCHANGED << visited, unfinished, wres >>
         ELSE Admit(e, w, url)

\* Head of the loop: return if stopped; block on the pause gate if it is closed;
\* block in queue.get() if the queue is empty; else dequeue in the same step (a
\* set event and a non-empty queue do not yield to the event loop)
WLoop(e, w) ==
  /\ wpc[e][w] = "loop"
  /\ IF stopped[e] \/ ~gate[e] \/ queue[e] = << >>
     THEN /\ wpc' = [wpc EXCEPT ![e][w] =
                       IF stopped[e] THEN "done" ELSE IF ~gate[e] THEN "wait1" ELSE "get"]
          /\ UNCHANGED << visited, queue, unfinished, wurl, wres >>
     ELSE Take(e, w)
  /\ UNCHANGED << auxVars, site, timedOut, storeVars, registry, pend, ops, faults, runpc,
                  resumeFlag, baseUrl, baseDomain, pageCount, gate, stopped,
                  finalStatus, raised, propagated >>

\* a worker waiting in queue.get() (or woken from the first wait on the pause gate)
\* finds a url in the queue
WGet(e, w) ==
  /\ wpc[e][w] = "get"
  /\ queue[e] # << >>
  /\ Take(e, w)
  /\ UNCHANGED << auxVars, site, timedOut, storeVars, registry, pend, ops, faults, runpc,
                  resumeFlag, baseUrl, baseDomain, pageCount, gate, stopped,
                  finalStatus, raised, propagated >>

\* the second wait on the pause gate has returned: the worker goes on to the lock
WAdmit(e, w) ==
  /\ wpc[e][w] = "admit"
  /\ Admit(e, w, wurl[e][w])
  /\ UNCHANGED << auxVars, site, timedOut, storeVars, registry, pend, ops, faults, runpc,
                  resumeFlag, baseUrl, baseDomain, queue, pageCount, gate, stopped,
                  finalStatus, raised, propagated >>

\* (variant) the url of a failed request is not acknowledged to the queue
WFetchFails_NoAck(e, w) ==
  /\ wpc[e][w] = "fetch"
  /\ CanFail
  /\ faults' = faults + 1
  /\ wpc' = [wpc EXCEPT ![e][w] = "loop"]
  /\ wurl' = [wurl EXCEPT ![e][w] = NoUrl]
  /\ wres' = [wres EXCEPT ![e][w] = NoRes]
  /\ UNCHANGED << auxVars, site, timedOut, storeVars, registry, pend, ops, runpc,
                  resumeFlag, baseUrl, baseDomain, visited, queue, unfinished, pageCount,
                  gate, stopped, finalStatus, raised, propagated >>

\* client.get(url) raises httpx.RequestError: logged, the url is dropped
WFetchFails(e, w) ==
  /\ wpc[e][w] = "fetch"
  /\ CanFail
  /\ faults' = faults + 1
  /\ TaskDone(e, w)
  /\ UNCHANGED << auxVars, site, timedOut, storeVars, registry, pend, ops, runpc, resumeFlag,
                  baseUrl, baseDomain, visited, queue, pageCount, gate, stopped,
                  finalStatus, raised, propagated >>

\* (variant) the final host of a redirect is not compared with the base domain
Classify_NoDomainTest(vis, dom, url, resp) ==
  IF /\ resp.redirected
     /\ NormalizeUrl(resp.final) # NormalizeUrl(url)
     /\ NormalizeUrl(resp.final) \in vis
  THEN "drop"
  ELSE IF resp.status >= 400 THEN "error"
  ELSE IF ~resp.html THEN "drop"
  ELSE "html"

\* what _crawl_page does with a response, up to its Store write:
\*   "drop"  return without a record (off-domain redirect, final page already
\*           visited, not HTML)
\*   "error" save the minimal record of a 4xx/5xx response
\*   "html"  analyze and save the page
Classify(vis, dom, url, resp) ==
  IF /\ resp.redirected
     /\ NormalizeDomain(UrlParse(resp.final).netloc) # dom
  THEN "drop"
  ELSE IF /\ resp.redirected
          /\ NormalizeUrl(resp.final) # NormalizeUrl(url)
          /\ NormalizeUrl(resp.final) \in vis
  THEN "drop"
  ELSE IF resp.status >= 400 THEN "error"
  ELSE IF ~resp.html THEN "drop"
  ELSE "html"

\* a real redirect (the final key differs from the requested one) that is not
\* dropped marks the final URL visited, under the lock
MarkFinal(vis, dom, url, resp) ==
  IF /\ resp.redirected
     /\ NormalizeDomain(UrlParse(resp.final).netloc) = dom
     /\ NormalizeUrl(resp.final) # NormalizeUrl(url)
     /\ NormalizeUrl(resp.final) \notin vis
  THEN MarkVisited(vis, resp.final)
  ELSE vis

\* client.get(url) returns: redirects are resolved, the response is classified
\* and the page record's Store write begins
WFetch(e, w) ==
  /\ wpc[e][w] = "fetch"
  /\ LET resp == Respond(site, wurl[e][w])
         kind == Classify(visited[e], baseDomain[e], wurl[e][w], resp)
     IN  /\ visited' = [visited EXCEPT ![e] = MarkFinal(@, baseDomain[e], wurl[e][w], resp)]
         /\ IF kind = "drop"
            THEN TaskDone(e, w)
            ELSE /\ wpc' = [wpc EXCEPT ![e][w] = "save"]
                 /\ wres' = [wres EXCEPT ![e][w] =
                      [url |-> resp.final, status |-> resp.status, kind |-> kind, count |-> 0]]
                 /\ UNCHANGED << unfinished, wurl >>
  /\ UNCHANGED << auxVars, site, timedOut, storeVars, registry, pend, ops, faults, runpc,
                  resumeFlag, baseUrl, baseDomain, queue, pageCount, gate, stopped,
                  finalStatus, raised, propagated >>

\* (variant) the row holds the deduplication key in place of the final URL
PageRow_Key(res) ==
  LET issues == IF res.kind = "error" THEN << >> ELSE SiteIssues(site, res.url)
  IN  [url |-> NormalizeUrl(res.url), status_code |-> res.status, issues |-> issues,
       score |-> IF res.kind = "error" THEN 0 ELSE CalculateScore(issues)]

\* the Page row written by _save_page (the fields the claims read): of the
\* minimal record of an error response (issues [], score 0), or of the record
\* analyze() returns for an HTML page
PageRow(res) ==
  LET issues == IF res.kind = "error" THEN << >> ELSE SiteIssues(site, res.url)
  IN  [url |-> res.url, status_code |-> res.status, issues |-> issues,
       score |-> IF res.kind = "error" THEN 0 ELSE CalculateScore(issues)]

\* _save_page commits: the page counter is incremented under the lock and
\* _update_crawl(pages_crawled=self._page_count) is called with the counter's value
WSave(e, w) ==
  /\ wpc[e][w] = "save"
  /\ pages' = Append(pages, PageRow(wres[e][w]))
  /\ pageCount' = [pageCount EXCEPT ![e] = @ + 1]
  /\ wres' = [wres EXCEPT ![e][w].count = pageCount[e] + 1]
  /\ wpc' = [wpc EXCEPT ![e][w] = "upd"]
  /\ UNCHANGED << auxVars, site, timedOut, status, pagesCrawled, completedAt, registry, pend,
                  ops, faults, runpc, resumeFlag, baseUrl, baseDomain, visited, queue,
                  unfinished, gate, stopped, finalStatus, raised, propagated, wurl >>

\* (variant) the counter is incremented although _save_page raised
WSaveFails_Counted(e, w) ==
  /\ wpc[e][w] = "save"
  /\ CanFail
  /\ faults' = faults + 1
  /\ pageCount' = [pageCount EXCEPT ![e] = @ + 1]
  /\ wres' = [wres EXCEPT ![e][w].count = pageCount[e] + 1]
  /\ wpc' = [wpc EXCEPT ![e][w] = "upd"]
  /\ UNCHANGED << auxVars, site, timedOut, storeVars, registry, pend, ops, runpc,
                  resumeFlag, baseUrl, baseDomain, visited, queue, unfinished, gate,
                  stopped, finalStatus, raised, propagated, wurl >>

\* _save_page raises: the counter is not incremented.  For an HTML page
\* _crawl_page returns; for an error page it still writes the progress counter.
WSaveFails(e, w) ==
  /\ wpc[e][w] = "save"
  /\ CanFail
  /\ faults' = faults + 1
  /\ IF wres[e][w].kind = "html"
     THEN TaskDone(e, w)
     ELSE /\ wres' = [wres EXCEPT ![e][w].count = pageCount[e]]
          /\ wpc' = [wpc EXCEPT ![e][w] = "upd"]
          /\ UNCHANGED << unfinished, wurl >>
  /\ UNCHANGED << auxVars, site, timedOut, storeVars, registry, pend, ops, runpc, resumeFlag,
                  baseUrl, baseDomain, visited, queue, pageCount, gate, stopped,
                  finalStatus, raised, propagated >>

\* (variant) link discovery runs for the body of an error response too
AfterUpdate_AnyBody(e, w) ==
  /\ LET links == Respond(site, wurl[e][w]).links
         q     == EnqueueAll(queue[e], visited[e], pageCount[e], baseDomain[e], links)
     IN  /\ queue' = [queue EXCEPT ![e] = q]
         /\ unfinished' = [unfinished EXCEPT ![e] = @ + (Len(q) - Len(queue[e])) - 1]
  /\ wpc' = [wpc EXCEPT ![e][w] = "loop"]
  /\ wurl' = [wurl EXCEPT ![e][w] = NoUrl]
  /\ wres' = [wres EXCEPT ![e][w] = NoRes]

\* the rest of _crawl_page after the progress write: for an HTML page the links of
\* the page are enqueued; then the url is acknowledged
AfterUpdate(e, w) ==
  /\ LET links == IF wres[e][w].kind = "html"
                  THEN Respond(site, wurl[e][w]).links ELSE << >>
         q     == EnqueueAll(queue[e], visited[e], pageCount[e], baseDomain[e], links)
     IN  /\ queue' = [queue EXCEPT ![e] = q]
         /\ unfinished' = [unfinished EXCEPT ![e] = @ + (Len(q) - Len(queue[e])) - 1]
  /\ wpc' = [wpc EXCEPT ![e][w] = "loop"]
  /\ wurl' = [wurl EXCEPT ![e][w] = NoUrl]
  /\ wres' = [wres EXCEPT ![e][w] = NoRes]

\* _update_crawl(pages_crawled=n) commits the value n it was called with
WUpdate(e, w) ==
  /\ wpc[e][w] = "upd"
  /\ pagesCrawled' = wres[e][w].count
  /\ AfterUpdate(e, w)
  /\ UNCHANGED << auxVars, site, timedOut, status, completedAt, pages, registry, pend, ops,
                  faults, runpc, resumeFlag, baseUrl, baseDomain, visited, pageCount,
                  gate, stopped, finalStatus, raised, propagated >>

\* _update_crawl(pages_crawled=n) raises: caught and logged
WUpdateFails(e, w) ==
  /\ wpc[e][w] = "upd"
  /\ CanFail
  /\ faults' = faults + 1
  /\ AfterUpdate(e, w)
  /\ UNCHANGED << auxVars, site, timedOut, storeVars, registry, pend, ops, runpc, resumeFlag,
                  baseUrl, baseDomain, visited, pageCount, gate, stopped, finalStatus,
                  raised, propagated >>

----------------------------------------------------------------------------
(* The control routes.  A route reads the crawl row, acts on the registered      *)
(* engine and commits; its commit is in flight in pend until RouteCommit.  One   *)
(* route commit is in flight at a time.                                          *)

CanOp == ops < MaxOps /\ pend = "none"

\* CrawlEngine.pause()
EnginePause(e) ==
  /\ gate' = [gate EXCEPT ![e] = IF Alive(e) THEN FALSE ELSE @]
  /\ UNCHANGED << stopped, wpc >>

\* CrawlEngine.resume()
EngineResume(e) ==
  /\ gate' = [gate EXCEPT ![e] = TRUE]
  /\ wpc' = [wpc EXCEPT ![e] = Wake(@)]
  /\ UNCHANGED stopped

\* CrawlEngine.stop()
EngineStop(e) ==
  /\ stopped' = [stopped EXCEPT ![e] = IF Alive(e) THEN TRUE ELSE @]
  /\ gate' = [gate EXCEPT ![e] = TRUE]
  /\ wpc' = [wpc EXCEPT ![e] = Wake(@)]

\* POST /crawls/{id}/pause: the crawl is "running" and its engine is registered
PauseCrawl ==
  /\ CanOp
  /\ status = "running"
  /\ registry # NoEngine
  /\ EnginePause(registry)
  /\ pend' = "paused"
  /\ ops' = ops + 1
  /\ UNCHANGED << auxVars, site, timedOut, storeVars, registry, faults, runpc, resumeFlag,
                  baseUrl, baseDomain, visited, queue, unfinished, pageCount,
                  finalStatus, raised, propagated, wurl, wres >>

\* POST /crawls/{id}/resume with the crawl "paused" and its engine registered
ResumePaused ==
  /\ CanOp
  /\ status = "paused"
  /\ registry # NoEngine
  /\ EngineResume(registry)
  /\ pend' = "running"
  /\ ops' = ops + 1
  /\ UNCHANGED << auxVars, site, timedOut, storeVars, registry, faults, runpc, resumeFlag,
                  baseUrl, baseDomain, visited, queue, unfinished, pageCount,
                  finalStatus, raised, propagated, wurl, wres >>

\* POST /crawls/{id}/resume with the crawl "stopped": a background task is added
\* that constructs a new engine and runs it with resume_from_stopped=True.  The
\* route writes nothing to the Store.
ResumeStopped(e) ==
  /\ CanOp
  /\ status = "stopped"
  /\ runpc[e] \in {"idle", "exited"}
  /\ \A f \in Engines : f < e => runpc[f] \notin {"idle", "exited"}
  /\ runpc' = [runpc EXCEPT ![e] = "scheduled"]
  /\ resumeFlag' = [resumeFlag EXCEPT ![e] = TRUE]
  /\ finalStatus' = [finalStatus EXCEPT ![e] = "none"]
  /\ raised' = [raised EXCEPT ![e] = FALSE]
  /\ propagated' = [propagated EXCEPT ![e] = FALSE]
  /\ ops' = ops + 1
  /\ UNCHANGED << auxVars, site, timedOut, storeVars, registry, pend, faults, baseUrl,
                  baseDomain, visited, queue, unfinished, pageCount, gate, stopped,
                  workerVars >>

\* POST /crawls/{id}/stop with the engine registered: engine.stop(), no Store write
StopCrawl ==
  /\ CanOp
  /\ status \in {"running", "paused"}
  /\ registry # NoEngine
  /\ EngineStop(registry)
  /\ ops' = ops + 1
  /\ UNCHANGED << auxVars, site, timedOut, storeVars, registry, pend, faults, runpc, resumeFlag,
                  baseUrl, baseDomain, visited, queue, unfinished, pageCount,
                  finalStatus, raised, propagated, wurl, wres >>

\* POST /crawls/{id}/stop with no engine registered: the route writes "stopped"
StopCrawlNoEngine ==
  /\ CanOp
  /\ status \in {"running", "paused"}
  /\ registry = NoEngine
  /\ pend' = "stopped"
  /\ ops' = ops + 1
  /\ UNCHANGED << auxVars, site, timedOut, storeVars, registry, faults, engineVars, workerVars >>

\* the route's db.commit() lands
RouteCommit ==
  /\ pend # "none"
  /\ status' = pend
  /\ completedAt' = IF pend = "stopped" THEN TRUE ELSE completedAt
  /\ pend' = "none"
  /\ UNCHANGED << auxVars, site, timedOut, pagesCrawled, pages, registry, ops, faults,
                  engineVars, workerVars >>

----------------------------------------------------------------------------
(* Specifications *)

RunStep(e) ==
  \/ RunBegin(e) \/ RunSetRunning(e) \/ RunResolve(e) \/ RunPreload(e) \/ RunSeed(e)
  \/ RunJoinReturns(e) \/ RunGather(e) \/ RunFinal(e) \/ RunExit(e)

\* the failure paths of run(): a raising Store call and the except clause
RunFault(e) ==
  \/ RunSetRunningFails(e) \/ RunBodyFails(e) \/ RunFinalFails(e) \/ RunFailed(e)
  \/ RunFailedFails(e)

WorkerStep(e, w) ==
  \/ WLoop(e, w) \/ WGet(e, w) \/ WAdmit(e, w) \/ WFetch(e, w) \/ WSave(e, w)
  \/ WUpdate(e, w)

WorkerFault(e, w) ==
  \/ WFetchFails(e, w) \/ WSaveFails(e, w) \/ WUpdateFails(e, w)

Control ==
  \/ PauseCrawl \/ ResumePaused \/ StopCrawl \/ StopCrawlNoEngine \/ RouteCommit

\* the steps of the engines in E, their workers and the control routes
Core(E) ==
  \/ \E e \in E : RunStep(e) \/ RunTimeout(e) \/ ResumeStopped(e)
  \/ \E e \in E : \E w \in Workers : WorkerStep(e, w)
  \/ Control

\* the failures of the Store and of the HTTP transport
Faults(E) ==
  \/ \E e \in E : RunFault(e)
  \/ \E e \in E : \E w \in Workers : WorkerFault(e, w)

\* every engine slot, with failures
Next == Core(Engines) \/ Faults(Engines)

\* one engine at a time (a resume from stopped waits for the previous run() to
\* have exited), with failures
NextOne == Core({1}) \/ Faults({1})

\* one engine at a time, no failures
NextOneOk == Core({1})

\* concurrent engines (a second resume while the first is starting), no failures
NextMultiOk == Core(Engines)

\* the sites with redirects and error pages, and the sites with a robots.txt
InitWeb == Boot(WebSites) /\ NoCall
InitRobots == Boot(RobotsSites) /\ NoCall

Spec == Init /\ [][NextOne]_vars
SpecWeb == InitWeb /\ [][NextOne]_vars
SpecRobots == InitRobots /\ [][NextOne]_vars

\* a site whose queue holds two URLs of one key (the second is dropped as
\* visited, with the cap reached), and a site with a robots.txt
AckSites == {"slash", "robots"}
InitAck == Boot(AckSites) /\ NoCall
SpecAck == InitAck /\ [][NextOne]_vars
SpecOk == Init /\ [][NextOneOk]_vars
SpecMulti == Init /\ [][NextMultiOk]_vars

----------------------------------------------------------------------------
(* The worker with self._lock made explicit.  "async with self._lock" suspends  *)
(* the worker while another worker holds the lock, so each acquisition is a     *)
(* step of its own; the body of the block has no await and runs, with the       *)
(* release and the code up to the next await, as one step.  Worker positions:   *)
(* "admit", "lock2", "lock3" are before the three blocks (engine.py:374, 433,   *)
(* 473/496), "in1", "in2", "in3" are inside them.                               *)

\* the positions at which a worker awaits the HTTP response, a Store write or
\* the pause gate
IOPositions == {"fetch", "save", "upd", "wait1", "wait2"}

\* queue.get() has returned url: the stop flag is tested again, then the pause
\* gate; with the gate open the worker arrives at the lock
LTake(e, w) ==
  /\ queue' = [queue EXCEPT ![e] = Tail(@)]
  /\ IF stopped[e]
     THEN TaskDone(e, w)
     ELSE /\ wpc' = [wpc EXCEPT ![e][w] = IF gate[e] THEN "admit" ELSE "wait2"]
          /\ wurl' = [wurl EXCEPT ![e][w] = Head(queue[e])]
          /\ UNCHANGED << unfinished, wres >>

\* head of the worker loop
LLoop(e, w) ==
  /\ wpc[e][w] = "loop"
  /\ IF stopped[e] \/ ~gate[e] \/ queue[e] = << >>
     THEN /\ wpc' = [wpc EXCEPT ![e][w] =
                       IF stopped[e] THEN "done" ELSE IF ~gate[e] THEN "wait1" ELSE "get"]
          /\ UNCHANGED << queue, unfinished, wurl, wres >>
     ELSE LTake(e, w)
  /\ UNCHANGED << auxVars, site, timedOut, storeVars, registry, pend, ops, faults, runpc,
                  resumeFlag, baseUrl, baseDomain, visited, pageCount, gate, stopped,
                  finalStatus, raised, propagated >>

\* a worker waiting in queue.get() finds a url in the queue
LGet(e, w) ==
  /\ wpc[e][w] = "get"
  /\ queue[e] # << >>
  /\ LTake(e, w)
  /\ UNCHANGED << auxVars, site, timedOut, storeVars, registry, pend, ops, faults, runpc,
                  resumeFlag, baseUrl, baseDomain, visited, pageCount, gate, stopped,
                  finalStatus, raised, propagated >>

\* asyncio.Lock.acquire(): the worker enters the block when no worker holds the lock
LAcquire(e, w) ==
  /\ wpc[e][w] \in {"admit", "lock2", "lock3"}
  /\ lockOwner[e] = NoWorker
  /\ lockOwner' = [lockOwner EXCEPT ![e] = w]
  /\ wpc' = [wpc EXCEPT ![e][w] = CASE wpc[e][w] = "admit" -> "in1"
                                    [] wpc[e][w] = "lock2" -> "in2"
                                    [] OTHER -> "in3"]
  /\ UNCHANGED << fnArg, fnRes, site, timedOut, storeVars, registry, pend, ops, faults,
                  engineVars, wurl, wres >>

\* the first block: the visited and cap tests and _mark_visited; the lock is
\* released on leaving the block (by "continue" too); then the robots test
LAdmit(e, w) ==
  /\ wpc[e][w] = "in1"
  /\ Admit(e, w, wurl[e][w])
  /\ lockOwner' = [lockOwner EXCEPT ![e] = NoWorker]
  /\ UNCHANGED << fnArg, fnRes, site, timedOut, storeVars, registry, pend, ops, faults,
                  runpc, resumeFlag, baseUrl, baseDomain, queue, pageCount, gate, stopped,
                  finalStatus, raised, propagated >>

\* the response is a redirect to another key on the crawl's own domain
RealRedirect(dom, url, resp) ==
  /\ resp.redirected
  /\ NormalizeDomain(UrlParse(resp.final).netloc) = dom
  /\ NormalizeUrl(resp.final) # NormalizeUrl(url)

\* _crawl_page after the redirect rules: "error" for a status >= 400, "drop" for
\* a body that is not text/html, else "html"
Outcome(resp) ==
  IF resp.status >= 400 THEN "error" ELSE IF ~resp.html THEN "drop" ELSE "html"

\* ... and the step to the Store write of the record, or the return
LOutcome(e, w, resp) ==
  IF Outcome(resp) = "drop"
  THEN TaskDone(e, w)
  ELSE /\ wpc' = [wpc EXCEPT ![e][w] = "save"]
       /\ wres' = [wres EXCEPT ![e][w] =
            [url |-> resp.final, status |-> resp.status, kind |-> Outcome(resp), count |-> 0]]
       /\ UNCHANGED << unfinished, wurl >>

\* client.get(url) returns: an off-domain redirect is dropped, a real redirect
\* arrives at the second block, any other response goes on to its record
LFetch(e, w) ==
  /\ wpc[e][w] = "fetch"
  /\ LET resp == Respond(site, wurl[e][w])
     IN  IF resp.redirected /\ NormalizeDomain(UrlParse(resp.final).netloc) # baseDomain[e]
         THEN TaskDone(e, w)
         ELSE IF RealRedirect(baseDomain[e], wurl[e][w], resp)
         THEN /\ wpc' = [wpc EXCEPT ![e][w] = "lock2"]
              /\ UNCHANGED << unfinished, wurl, wres >>
         ELSE LOutcome(e, w, resp)
  /\ UNCHANGED << auxVars, site, timedOut, storeVars, registry, pend, ops, faults, runpc,
                  resumeFlag, baseUrl, baseDomain, visited, queue, pageCount, gate, stopped,
                  finalStatus, raised, propagated >>

\* the second block: return if the final key is visited, else mark it
LFinal(e, w) ==
  /\ wpc[e][w] = "in2"
  /\ LET resp == Respond(site, wurl[e][w])
     IN  IF NormalizeUrl(resp.final) \in visited[e]
         THEN TaskDone(e, w) /\ UNCHANGED visited
         ELSE /\ visited' = [visited EXCEPT ![e] = MarkVisited(@, resp.final)]
              /\ LOutcome(e, w, resp)
  /\ lockOwner' = [lockOwner EXCEPT ![e] = NoWorker]
  /\ UNCHANGED << fnArg, fnRes, site, timedOut, storeVars, registry, pend, ops, faults,
                  runpc, resumeFlag, baseUrl, baseDomain, queue, pageCount, gate, stopped,
                  finalStatus, raised, propagated >>

\* (variant) the counter is incremented right after the Store write, outside the lock
LSave_Unlocked(e, w) ==
  /\ wpc[e][w] = "save"
  /\ pages' = Append(pages, PageRow(wres[e][w]))
  /\ pageCount' = [pageCount EXCEPT ![e] = @ + 1]
  /\ wres' = [wres EXCEPT ![e][w].count = pageCount[e] + 1]
  /\ wpc' = [wpc EXCEPT ![e][w] = "upd"]
  /\ UNCHANGED << auxVars, site, timedOut, status, pagesCrawled, completedAt, registry, pend,
                  ops, faults, runpc, resumeFlag, baseUrl, baseDomain, visited, queue,
                  unfinished, gate, stopped, finalStatus, raised, propagated, wurl >>

\* _save_page commits: the worker arrives at the third block
LSave(e, w) ==
  /\ wpc[e][w] = "save"
  /\ pages' = Append(pages, PageRow(wres[e][w]))
  /\ wpc' = [wpc EXCEPT ![e][w] = "lock3"]
  /\ UNCHANGED << auxVars, site, timedOut, status, pagesCrawled, completedAt, registry, pend,
                  ops, faults, runpc, resumeFlag, baseUrl, baseDomain, visited, queue,
                  unfinished, pageCount, gate, stopped, finalStatus, raised, propagated,
                  wurl, wres >>

\* the third block: self._page_count += 1; after the release
\* _update_crawl(pages_crawled=self._page_count) is called with the counter's value
LIncrement(e, w) ==
  /\ wpc[e][w] = "in3"
  /\ pageCount' = [pageCount EXCEPT ![e] = @ + 1]
  /\ wres' = [wres EXCEPT ![e][w].count = pageCount[e] + 1]
  /\ wpc' = [wpc EXCEPT ![e][w] = "upd"]
  /\ lockOwner' = [lockOwner EXCEPT ![e] = NoWorker]
  /\ UNCHANGED << fnArg, fnRes, site, timedOut, storeVars, registry, pend, ops, faults,
                  runpc, resumeFlag, baseUrl, baseDomain, visited, queue, unfinished, gate,
                  stopped, finalStatus, raised, propagated, wurl >>

LockStep(e, w) ==
  \/ LLoop(e, w) \/ LGet(e, w) \/ LAcquire(e, w) \/ LAdmit(e, w) \/ LFetch(e, w)
  \/ LFinal(e, w) \/ LSave(e, w) \/ LIncrement(e, w) \/ WUpdate(e, w)

\* one engine at a time, its workers stepping through the lock, and the pause,
\* resume and stop routes
NextLock ==
  \/ RunStep(1) \/ ResumeStopped(1)
  \/ \E w \in Workers : LockStep(1, w)
  \/ PauseCrawl \/ ResumePaused \/ StopCrawl \/ RouteCommit

\* "plain" puts two URLs in the queue at once, "redir" has a real redirect
LockSites == {"plain", "redir"}
InitLock == Boot(LockSites) /\ NoCall
SpecLock == InitLock /\ [][NextLock]_vars

----------------------------------------------------------------------------
(* Functions applied on their own: the arguments are drawn in the initial state *)
(* and one step applies the function.  The engine takes no step.                *)

\* every variable but the returned value
callFrame == << fnArg, lockOwner, site, timedOut, storeVars, registry, pend, ops, faults,
                engineVars, workerVars >>

\* Rule lines that follow "User-agent: *" in a robots.txt under test.
MaxLines == 2
RulePatterns == { << >>, <<"/","p">>, <<"/","p","/","a">>, <<"/","q">> }
RuleLines == { Line(k, v) : k \in {"disallow", "allow"}, v \in RulePatterns }
RobotsTexts ==
  { << Line("user-agent", Star) >> \o t :
      t \in UNION { [1..n -> RuleLines] : n \in 0..MaxLines } }
RobotsUrls == { U_pb, Http \o HostEx \o <<"/","p","/","a">>, Http \o HostEx \o <<"/","q">> }

\* parser = RobotsParser(base); parser._parse(txt); parser.is_allowed(url)
CallIsAllowed ==
  /\ fnRes = << >>
  /\ fnRes' = << IsAllowed(Parse(fnArg.txt).disallowed, fnArg.url) >>
  /\ UNCHANGED callFrame

InitIsAllowed ==
  /\ Boot({"plain"})
  /\ fnArg \in { [txt |-> t, url |-> u] : t \in RobotsTexts, u \in RobotsUrls }
  /\ fnRes = << >>

SpecIsAllowed == InitIsAllowed /\ [][CallIsAllowed]_vars

\* robots.txt files that open with up to MaxAgents User-agent lines in a row,
\* followed by up to MaxLines rule lines
MaxAgents == 2
AgentNames == { Star, OwnAgent, <<"X">> }
AgentBlocks ==
  UNION { [1..n -> { Line("user-agent", a) : a \in AgentNames }] : n \in 1..MaxAgents }
RuleBlocks == UNION { [1..n -> RuleLines] : n \in 0..MaxLines }
GroupTexts == { ab \o rb : ab \in AgentBlocks, rb \in RuleBlocks }

\* parser = RobotsParser(base); parser._parse(txt)
CallParse ==
  /\ fnRes = << >>
  /\ fnRes' = << Parse(fnArg) >>
  /\ UNCHANGED callFrame

InitParse ==
  /\ Boot({"plain"})
  /\ fnArg \in GroupTexts
  /\ fnRes = << >>

SpecParse == InitParse /\ [][CallParse]_vars

\* Issue lists of an analyzer under test: one issue of each severity the
\* analyzer emits (analyzer.py:78, 80, 308), in any order and number up to MaxIssues
MaxIssues == 8
IssueKinds ==
  { Issue("critical", "missing_title"), Issue("warning", "short_title"),
    Issue("info", "no_schema_markup") }
IssueLists == UNION { [1..n -> IssueKinds] : n \in 0..MaxIssues }

\* analyzer.issues = issues; analyzer._calculate_score()
CallCalculateScore ==
  /\ fnRes = << >>
  /\ fnRes' = << CalculateScore(fnArg) >>
  /\ UNCHANGED callFrame

InitScore ==
  /\ Boot({"plain"})
  /\ fnArg \in IssueLists
  /\ fnRes = << >>

SpecScore == InitScore /\ [][CallCalculateScore]_vars

\* URL strings under test: with and without scheme, the host e.x or E.X behind
\* up to MaxWww "www." prefixes, and paths with trailing slashes, query, fragment
MaxWww == 2
RECURSIVE Repeat(_, _)
Repeat(s, n) == IF n = 0 THEN << >> ELSE s \o Repeat(s, n - 1)
UrlPaths ==
  { << >>, <<"/">>, <<"/","a">>, <<"/","a","/">>, <<"/","a","/","/">>, <<"/","A">>,
    <<"/","a","?","x">>, <<"/","a","#","x">>, <<"/","a","/","?","x">> }
UrlStrings ==
  { sch \o Repeat(Www, k) \o host \o path :
      sch \in { Http, << >> }, k \in 0..MaxWww,
      host \in { HostEx, <<"E",".","X">> }, path \in UrlPaths }

\* key = _normalize_url(u); again = _normalize_url(key)
CallNormalizeUrl ==
  /\ fnRes = << >>
  /\ fnRes' = << NormalizeUrl(fnArg), NormalizeUrl(NormalizeUrl(fnArg)) >>
  /\ UNCHANGED callFrame

InitNormalize ==
  /\ Boot({"plain"})
  /\ fnArg \in UrlStrings
  /\ fnRes = << >>

SpecNormalize == InitNormalize /\ [][CallNormalizeUrl]_vars

----------------------------------------------------------------------------
(* SEOAnalyzer._analyze_title on its own.  The page either has no <title> tag  *)
(* or a tag with a text.                                                        *)

\* str.strip() for the blank " "
RECURSIVE LStrip(_)
LStrip(s) == IF s # << >> /\ Head(s) = " " THEN LStrip(Tail(s)) ELSE s
RECURSIVE RStripBlank(_)
RStripBlank(s) ==
  IF s # << >> /\ s[Len(s)] = " " THEN RStripBlank(SubSeq(s, 1, Len(s) - 1)) ELSE s
Strip(s) == RStripBlank(LStrip(s))

\* (variant) a title of 30 characters counts as short
AnalyzeTitle_Short30(tag, text) ==
  LET title == IF tag THEN Strip(text) ELSE << >>
      n     == Len(title)
  IN  [ title |-> title, title_length |-> n,
        issues |-> IF title = << >> THEN << Issue("critical", "missing_title") >>
                   ELSE IF n <= 30 THEN << Issue("warning", "short_title") >>
                   ELSE IF n > 60 THEN << Issue("warning", "long_title") >>
                   ELSE << >> ]

\* _analyze_title(): title_tag.get_text(strip=True) or None; None and "" are
\* both falsy and give title_length 0.  The result holds the returned columns
\* and the issues the call appended (title None is the empty text here).
AnalyzeTitle(tag, text) ==
  LET title == IF tag THEN Strip(text) ELSE << >>
      n     == Len(title)
  IN  [ title |-> title, title_length |-> n,
        issues |-> IF title = << >> THEN << Issue("critical", "missing_title") >>
                   ELSE IF n < 30 THEN << Issue("warning", "short_title") >>
                   ELSE IF n > 60 THEN << Issue("warning", "long_title") >>
                   ELSE << >> ]

\* Titles under test: no tag, or a text of up to MaxTitleLen characters with or
\* without blanks around it
MaxTitleLen == 62
TitleTexts ==
  { pad \o [i \in 1..n |-> "x"] \o pad : pad \in { << >>, <<" ">> }, n \in 0..MaxTitleLen }
TitleInputs ==
  { [tag |-> TRUE, text |-> t] : t \in TitleTexts } \cup { [tag |-> FALSE, text |-> << >>] }

\* SEOAnalyzer(url, html, ...)._analyze_title()
CallAnalyzeTitle ==
  /\ fnRes = << >>
  /\ fnRes' = << AnalyzeTitle(fnArg.tag, fnArg.text) >>
  /\ UNCHANGED callFrame

InitTitle ==
  /\ Boot({"plain"})
  /\ fnArg \in TitleInputs
  /\ fnRes = << >>

SpecTitle == InitTitle /\ [][CallAnalyzeTitle]_vars

----------------------------------------------------------------------------
(* GET /crawls/{id}/summary (get_crawl_summary) as a function of the crawl's    *)
(* Page rows.  A row holds the columns the summary reads; page_id is the row's  *)
(* position.  Lists of page entries are given as the sets of their page ids,    *)
(* and issue_groups as the set of its groups (its sort order is not modelled).  *)

\* every (severity, type) the analyzer appends to self.issues
EmittedIssues ==
  { Issue("critical", "missing_title"), Issue("warning", "short_title"),
    Issue("warning", "long_title"), Issue("critical", "missing_meta_description"),
    Issue("warning", "short_meta_description"), Issue("warning", "long_meta_description"),
    Issue("warning", "missing_canonical"), Issue("warning", "canonical_external"),
    Issue("info", "canonical_relative"), Issue("warning", "noindex"),
    Issue("warning", "nofollow_meta"), Issue("critical", "missing_h1"),
    Issue("warning", "multiple_h1"), Issue("warning", "images_missing_alt"),
    Issue("warning", "images_empty_alt"), Issue("warning", "role_img_missing_label"),
    Issue("info", "svg_missing_title"), Issue("info", "no_schema_markup"),
    Issue("critical", "missing_viewport"), Issue("warning", "thin_content"),
    Issue("info", "missing_og_title"), Issue("info", "missing_og_image"),
    Issue("info", "no_lazy_loading"), Issue("warning", "hreflang_issue"),
    Issue("warning", "nofollow_internal"), Issue("warning", "low_text_ratio"),
    Issue("info", "high_text_ratio"), Issue("critical", "placeholder_content") }

\* the keys of severity_map by value
CriticalTypes ==
  { "missing_title", "missing_meta_description", "missing_h1", "missing_viewport",
    "placeholder_content", "http_error" }
WarningTypes ==
  { "noindex", "nofollow_meta", "short_title", "long_title", "short_meta_description",
    "long_meta_description", "missing_canonical", "canonical_external",
    "canonical_mismatch", "canonical_relative", "images_missing_alt", "images_empty_alt",
    "thin_content", "low_text_ratio", "multiple_h1", "nofollow_internal",
    "hreflang_issue", "slow_response" }

\* severity_map.get(itype, "info")
SeverityMapGet(itype) ==
  IF itype \in CriticalTypes THEN "critical"
  ELSE IF itype \in WarningTypes THEN "warning"
  ELSE "info"

\* None in the nullable column code_to_text_ratio
NoValue == -1
REDIRECT_CODES == {301, 302, 303, 307, 308}

\* content_pages: the page ids of the rows with a 2xx status
IsContent(p) == p.status_code >= 200 /\ p.status_code < 300
ContentIds(rows) == { k \in 1..Len(rows) : IsContent(rows[k]) }

\* the issues of the content pages, each as << page id, position in p.issues >>
IssueSlots(rows) ==
  UNION { { << k, j >> : j \in 1..Len(rows[k].issues) } : k \in ContentIds(rows) }

\* the issues of type "redirect" of the pages with a redirect status
RedirectSlots(rows) ==
  UNION { { << k, j >> : j \in { i \in 1..Len(rows[k].issues) :
                                   rows[k].issues[i].type = "redirect" } } :
          k \in { n \in 1..Len(rows) : rows[n].status_code \in REDIRECT_CODES } }

SlotIssue(rows, slot) == rows[slot[1]].issues[slot[2]]

\* critical, warnings, info_count after the two loops
Tally(rows, severity) ==
  Cardinality({ sl \in IssueSlots(rows) : SlotIssue(rows, sl).severity = severity })
    + (IF severity = "warning" THEN Cardinality(RedirectSlots(rows)) ELSE 0)

\* issue_map[itype]: the entries appended under itype
IssueMap(rows, itype) ==
  { sl \in IssueSlots(rows) : SlotIssue(rows, sl).type = itype }
    \cup (IF itype = "redirect" THEN RedirectSlots(rows) ELSE {})

\* issue_groups: one IssueGroup per key of issue_map
IssueGroups(rows) ==
  { [category |-> t, severity |-> SeverityMapGet(t),
     count |-> Cardinality(IssueMap(rows, t))] :
    t \in { SlotIssue(rows, sl).type : sl \in IssueSlots(rows) \cup RedirectSlots(rows) } }

\* (variant) the title groups are built over every page
TitleGroup_AllPages(rows, title) == { k \in 1..Len(rows) : rows[k].title = title }

\* title_groups[title]: the content pages appended under the title
TitleGroup(rows, title) == { k \in ContentIds(rows) : rows[k].title = title }

\* duplicate_titles: the groups of title_groups with more than one page; a page
\* with a falsy title (None or "") enters no group
DuplicateTitles(rows) ==
  { [value |-> t, pages |-> TitleGroup(rows, t), count |-> Cardinality(TitleGroup(rows, t))] :
    t \in { rows[k].title : k \in { n \in ContentIds(rows) : rows[n].title # << >> } }
          \cap { u \in { rows[k].title : k \in 1..Len(rows) } :
                   Cardinality(TitleGroup(rows, u)) > 1 } }

\* thin_content: p.word_count and p.word_count < 300
ThinContent(rows) ==
  { k \in ContentIds(rows) : rows[k].word_count # 0 /\ rows[k].word_count < 300 }

\* low_ratio: p.code_to_text_ratio is not None and p.code_to_text_ratio < 10
LowRatio(rows) ==
  { k \in ContentIds(rows) :
      rows[k].code_to_text_ratio # NoValue /\ rows[k].code_to_text_ratio < 10 }

\* slow_pages: p.response_time and p.response_time > 3, over all pages
SlowPages(rows) ==
  { k \in 1..Len(rows) : rows[k].response_time # 0 /\ rows[k].response_time > 3 }

\* the fields of the returned summary that the properties read
GetCrawlSummary(rows) ==
  [ total_pages |-> Len(rows),
    critical_issues |-> Tally(rows, "critical"),
    warnings |-> Tally(rows, "warning"),
    info_issues |-> Tally(rows, "info"),
    issue_groups |-> IssueGroups(rows),
    duplicate_titles |-> DuplicateTitles(rows),
    thin_content_pages |-> ThinContent(rows),
    low_text_ratio_pages |-> LowRatio(rows),
    slow_pages |-> SlowPages(rows) ]

\* summary = get_crawl_summary(crawl_id) over the rows fnArg (a crawl without
\* rows is answered 404, so there is at least one row)
CallGetCrawlSummary ==
  /\ fnRes = << >>
  /\ fnRes' = << GetCrawlSummary(fnArg) >>
  /\ UNCHANGED callFrame

\* Page rows under test: up to MaxRows rows of a family of rows
MaxRows == 3
RowsOver(family) == UNION { [1..n -> family] : n \in 1..MaxRows }

\* the row of a 200 page on which the analyzer found nothing
PlainRow ==
  [ status_code |-> 200, title |-> <<"t">>, word_count |-> 300,
    code_to_text_ratio |-> 10, response_time |-> 1, issues |-> << >> ]

\* rows of content pages with one issue the analyzer emits
GroupRows == { [PlainRow EXCEPT !.issues = << i >>] : i \in EmittedIssues }

InitGroups ==
  /\ Boot({"plain"})
  /\ fnArg \in RowsOver(GroupRows)
  /\ fnRes = << >>

SpecGroups == InitGroups /\ [][CallGetCrawlSummary]_vars

\* rows with and without a title, of content pages, error pages and redirects
TitleRows ==
  { [PlainRow EXCEPT !.status_code = st, !.title = t, !.issues = is] :
      st \in {200, 404, 301}, t \in { << >>, <<"t">>, <<"u">> },
      is \in { << >>, << Issue("warning", "short_title") >> } }

InitDuplicates ==
  /\ Boot({"plain"})
  /\ fnArg \in RowsOver(TitleRows)
  /\ fnRes = << >>

SpecDuplicates == InitDuplicates /\ [][CallGetCrawlSummary]_vars

\* rows around the thresholds of the content statistics: word counts 0, 299 and
\* 300, text ratios None, 9 and 10 (percent), response times of 3 and 4 seconds
ContentRows ==
  { [PlainRow EXCEPT !.status_code = st, !.word_count = wc, !.code_to_text_ratio = cr,
                     !.response_time = rt] :
      st \in {200, 404}, wc \in {0, 299, 300}, cr \in {NoValue, 9, 10}, rt \in {3, 4} }

InitContent ==
  /\ Boot({"plain"})
  /\ fnArg \in RowsOver(ContentRows)
  /\ fnRes = << >>

SpecContent == InitContent /\ [][CallGetCrawlSummary]_vars

----------------------------------------------------------------------------
(* Properties *)

\* the deduplication keys of the saved Page rows
SavedKeys == {NormalizeUrl(pages[i].url) : i \in 1..Len(pages)}

\* C1: no two Page Records of the crawl have URLs with the same deduplication
\* key, after any sequence of start, pause, resume and stop operations.
C1_NoDuplicateKeys ==
  \A i, j \in 1..Len(pages) :
     i # j => NormalizeUrl(pages[i].url) # NormalizeUrl(pages[j].url)

\* C2: the number of Page Records created for the crawl never exceeds MAX_PAGES,
\* however many workers are in flight when the counter is MAX_PAGES - 1.
C2_RecordsWithinCap == Len(pages) <= MAX_PAGES

\* the edges of the crawl state machine
StatusEdge(a, b) ==
  \/ <<a, b>> \in { <<"pending", "running">>, <<"running", "paused">>,
                    <<"paused", "running">>, <<"stopped", "running">>,
                    <<"running", "stopped">>, <<"paused", "stopped">>,
                    <<"running", "completed">> }
  \/ b = "failed"

\* C3: every change of the stored status follows an edge of the state machine;
\* in particular "completed" is written only over "running".
C3_StatusFollowsStateMachine ==
  [][status' # status => StatusEdge(status, status')]_vars

\* run() of engine e can only be ended by the expiry of the wall-clock budget:
\* every worker has returned and queued URLs are left unacknowledged
OnlyBudgetEnds(e) ==
  /\ runpc[e] = "join"
  /\ unfinished[e] > 0
  /\ \A w \in Workers : wpc[e][w] = "done"

\* C4: after stop is invoked on a registered engine the crawl terminates once the
\* in-flight requests finish, however many URLs are queued: run() is never left
\* waiting for the wall-clock budget alone.
C4_StopEndsWithoutBudget ==
  \A e \in Engines : stopped[e] => ~OnlyBudgetEnds(e)

\* C5: between a pause and the following resume no Page Record is written to the
\* Store, whatever the workers were doing when pause was invoked.
C5_NoRecordWhilePaused ==
  [][(\E e \in Engines : Alive(e) /\ ~gate[e] /\ ~gate'[e]) => pages' = pages]_vars

\* C6: no worker begins an HTTP fetch after stop has been invoked, also not a
\* worker that was blocked on the pause gate when stop was invoked.
C6_NoFetchAfterStop ==
  [][\A e \in Engines : \A w \in Workers :
       (stopped[e] /\ wpc[e][w] # "fetch") => wpc'[e][w] # "fetch"]_vars

\* C7: the registry holds the engine while run() is executing and holds no entry
\* for it once run() has exited, on every exit path.
C7_RegistryFollowsRun ==
  \A e \in Engines :
     /\ Alive(e) => registry = e
     /\ runpc[e] = "exited" => registry # e

\* C8: when an exception was raised inside run(), run() exits with the stored
\* status "failed" and completed_at set, and the exception does not leave run().
C8_ExceptionLeavesFailed ==
  [][\A e \in Engines :
       (runpc[e] # "exited" /\ runpc'[e] = "exited" /\ raised'[e])
          => (status' = "failed" /\ completedAt' /\ ~propagated'[e])]_vars

\* the URLs reachable by links from the URLs in S
RECURSIVE LinkClosure(_, _)
LinkClosure(s, S) ==
  LET T == S \cup UNION { {Respond(s, u).links[k] : k \in 1..Len(Respond(s, u).links)} : u \in S }
  IN  IF T = S THEN S ELSE LinkClosure(s, T)

\* the pages reachable by links from the base URL
Reachable(s) == LinkClosure(s, {RStrip(SiteResolved(s), "/")})

\* C9: a run resumed from stopped that completes (no failure, no budget expiry,
\* cap not reached) has fetched every page reachable by links from the base URL
\* that had no record: every such page has a Page Record when the run has exited.
C9_ResumeCrawlsTheRest ==
  \A e \in Engines :
     ( /\ resumeFlag[e]
       /\ runpc[e] = "exited"
       /\ finalStatus[e] = "completed"
       /\ faults = 0
       /\ ~timedOut
       /\ Len(pages) < MAX_PAGES )
     => \A u \in Reachable(site) : NormalizeUrl(u) \in SavedKeys

\* C10: during one run the stored pages_crawled counter never decreases, under
\* any interleaving of the workers' progress updates.
C10_PagesCrawledMonotone ==
  [][(\E e \in Engines : runpc[e] = "join" /\ runpc'[e] = "join")
        => pagesCrawled' >= pagesCrawled]_vars

\* C11: at every moment the stored pages_crawled counter is at most the number of
\* Page Records stored for the crawl, also after a failed page save and after a
\* resume from stopped that re-derives the page counter from the saved records.
C11_CounterWithinRecords == pagesCrawled <= Len(pages)

\* a run resumed from stopped has re-derived its page counter from the saved
\* records, in a behaviour in which a Store write or a fetch failed and the
\* stored counter was written
C11_Witness ==
  /\ faults >= 1
  /\ pagesCrawled >= 1
  /\ \E e \in Engines : resumeFlag[e] /\ runpc[e] = "seed" /\ pageCount[e] >= 1

\* a worker marks a URL visited and drops it in the same step without a fetch:
\* the robots test of engine e has dropped a URL
RobotsDrop(e) ==
  /\ runpc[e] = "join" /\ runpc'[e] = "join"
  /\ visited[e] \subseteq visited'[e] /\ visited'[e] # visited[e]
  /\ unfinished'[e] = unfinished[e] - 1
  /\ \A w \in Workers : wpc[e][w] # "fetch"

\* C12: when the ignore-robots flag is not set, no Page Record is created whose
\* URL path is disallowed by the robots policy; when the flag is set, the robots
\* policy drops no URL.
C12_RobotsHonoured ==
  [][/\ ~SiteIgnoreRobots(site) =>
          \A i \in 1..Len(pages') : IsAllowed(SiteDisallowed(site), pages'[i].url)
     /\ SiteIgnoreRobots(site) => \A e \in Engines : ~RobotsDrop(e)]_vars

\* the non-empty patterns of the lines of txt with the given key
PatternsOf(txt, key) ==
  { txt[i].value : i \in { j \in 1..Len(txt) : txt[j].key = key } } \ { << >> }

\* the path starts with a disallow pattern of the group that no longer matching
\* allow pattern of the group overrides
DisallowedByPolicy(txt, url) ==
  LET path == UrlParse(url).path
  IN  \E d \in PatternsOf(txt, "disallow") :
        /\ StartsWith(path, d)
        /\ ~ \E a \in PatternsOf(txt, "allow") : StartsWith(path, a) /\ Len(a) > Len(d)

\* C13: is_allowed(url) returns false exactly when the URL's path starts with a
\* disallow pattern of the applicable group that is not overridden by a longer
\* matching allow pattern of that group.
C13_LongestPrefixWins ==
  fnRes # << >> => (fnRes[1] = FALSE <=> DisallowedByPolicy(fnArg.txt, fnArg.url))

\* the response to url is a redirect whose final host, normalized, is not the
\* effective base domain of engine e
OffDomainRedirect(e, url) ==
  LET resp == Respond(site, url)
  IN  resp.redirected /\ NormalizeDomain(UrlParse(resp.final).netloc) # baseDomain[e]

\* C14: when a dequeued URL is redirected off the effective base domain, the
\* request ends with no Page Record saved, the page counter unchanged and no URL
\* added to the queue.
C14_OffDomainDropsRequest ==
  [][\A e \in Engines : \A w \in Workers :
       ( /\ wpc[e][w] = "fetch" /\ wpc'[e][w] # "fetch"
         /\ OffDomainRedirect(e, wurl[e][w]) )
       => ( /\ pages' = pages
            /\ pageCount'[e] = pageCount[e]
            /\ queue'[e] = queue[e]
            /\ wpc'[e][w] \in {"loop", "cancelled"} )]_vars

\* the request for /a of site "offdom" was answered with the redirect to the
\* other host and the worker has gone on
C14_Witness ==
  /\ site = "offdom"
  /\ faults = 0 /\ ~timedOut
  /\ \E e \in Engines :
       /\ runpc[e] = "join"
       /\ NormalizeUrl(U_a) \in visited[e]
       /\ \A w \in Workers : wpc[e][w] \in {"loop", "get", "wait1", "done"}

\* the response to url is a 200 HTML page reached through a redirect to a URL
\* with the deduplication key of url
SameKeyRedirect(url) ==
  LET resp == Respond(site, url)
  IN  /\ resp.redirected /\ resp.status = 200 /\ resp.html
      /\ NormalizeUrl(resp.final) = NormalizeUrl(url)

\* C15: a dequeued URL redirected to a URL with the same deduplication key (200
\* HTML) adds exactly one key to the visited set (when the worker admits it, none
\* when the redirect is resolved), and its save appends exactly one Page Record,
\* which carries the final URL verbatim and the final status.
C15_SameKeyRedirectOneRecord ==
  [][\A e \in Engines : \A w \in Workers :
       LET url  == wurl'[e][w]
           resp == Respond(site, url)
       IN  /\ ( wpc[e][w] # "fetch" /\ wpc'[e][w] = "fetch" /\ SameKeyRedirect(url) )
               => ( /\ NormalizeUrl(url) \notin visited[e]
                    /\ visited'[e] = visited[e] \cup {NormalizeUrl(url)} )
           /\ ( wpc[e][w] = "fetch" /\ wpc'[e][w] = "save" /\ SameKeyRedirect(url) )
               => visited'[e] = visited[e]
           /\ ( wpc[e][w] = "save" /\ wpc'[e][w] = "upd" /\ SameKeyRedirect(url) )
               => ( /\ Len(pages') = Len(pages) + 1
                    /\ SubSeq(pages', 1, Len(pages)) = pages
                    /\ pages'[Len(pages')].url = resp.final
                    /\ pages'[Len(pages')].status_code = resp.status )]_vars

\* the worker that requested /a of site "slash" has saved the record of /a/
C15_Witness ==
  /\ site = "slash"
  /\ \E e \in Engines : \E w \in Workers :
       /\ wpc[e][w] = "upd" /\ wurl[e][w] = U_a
       /\ pages # << >>
       /\ pages[Len(pages)].url = U_aSlash /\ pages[Len(pages)].status_code = 200

\* the response to url has an error status and passes the redirect rules of
\* engine e (it is no redirect off the domain or to a visited page)
ErrorResponse(e, url) ==
  LET resp == Respond(site, url)
  IN  /\ resp.status \in 400..599
      /\ ~OffDomainRedirect(e, url)
      /\ ~ ( /\ resp.redirected
             /\ NormalizeUrl(resp.final) # NormalizeUrl(url)
             /\ NormalizeUrl(resp.final) \in visited[e] )

C17_FailureDropsRequest ==
  [][\A e \in Engines : \A w \in Workers :
       /\ ( /\ wpc[e][w] \in {"fetch", "save"} /\ wpc'[e][w] # wpc[e][w]
            /\ faults' = faults + 1 )
           => ( /\ pages' = pages
                /\ pageCount'[e] = pageCount[e]
                /\ \/ wpc'[e][w] = "loop" /\ unfinished'[e] = unfinished[e] - 1
                   \/ /\ wpc[e][w] = "save" /\ wres[e][w].kind = "error"
                      /\ wpc'[e][w] = "upd" /\ wres'[e][w].count = pageCount[e] )
       /\ ( /\ wpc[e][w] = "upd" /\ wres[e][w].kind = "error"
            /\ wpc'[e][w] \notin {"upd", "cancelled"} )
           => ( /\ pages' = pages
                /\ pageCount'[e] = pageCount[e]
                /\ wpc'[e][w] = "loop" /\ unfinished'[e] = unfinished[e] - 1 )]_vars

\* on site "err" the request for /a has failed (transport error or Store write):
\* /a is visited, has no record, the page counter counts the seed page only and
\* every worker is back in its loop with the queue drained and acknowledged
C17_Witness ==
  /\ site = "err"
  /\ faults >= 1 /\ ~timedOut
  /\ \A i \in 1..Len(pages) : pages[i].url # U_a
  /\ \E e \in Engines :
       /\ runpc[e] = "join" /\ ~resumeFlag[e]
       /\ NormalizeUrl(U_a) \in visited[e]
       /\ pageCount[e] = 1 /\ unfinished[e] = 0
       /\ \A w \in Workers : wpc[e][w] \in {"loop", "get", "wait1"}

\* C18: a URL is put on the queue, by seeding or by link discovery, only when at
\* that moment its normalized host equals the effective base domain, its key is
\* not in the visited set, the page counter is below MAX_PAGES and its path is on
\* neither skip list.
C18_EnqueueOnlyWhen ==
  [][\A e \in Engines :
       Len(queue'[e]) > Len(queue[e])
         => \A i \in (Len(queue[e]) + 1)..Len(queue'[e]) :
              LET url == queue'[e][i]
              IN  /\ NormalizeDomain(UrlParse(url).netloc) = baseDomain[e]
                  /\ NormalizeUrl(url) \notin visited[e]
                  /\ pageCount[e] < MAX_PAGES
                  /\ ~ShouldSkipUrl(url)]_vars

\* on site "mixed" the seed page links to an off-domain URL, a .pdf, an /api/
\* path and /a; link discovery has run and put /a alone on the queue
C18_Witness ==
  /\ site = "mixed"
  /\ \E e \in Engines :
       /\ runpc[e] = "join"
       /\ queue[e] = << U_a >>
       /\ pageCount[e] = 1
       /\ \E i \in 1..Len(pages) : pages[i].url = baseUrl[e]

\* C19: a worker changes the visited set or the page counter only while it holds
\* the engine's lock (the test and the write are one step inside the block), and
\* no worker holds the lock while it awaits an HTTP response, a Store write or
\* the pause gate.
C19_LockDiscipline ==
  [][\A e \in Engines : \A w \in Workers :
       /\ ( /\ runpc[e] = "join" /\ runpc'[e] = "join"
            /\ wpc'[e][w] # wpc[e][w]
            /\ visited'[e] # visited[e] \/ pageCount'[e] # pageCount[e] )
           => ( /\ lockOwner[e] = w
                /\ wpc[e][w] \in {"in1", "in2", "in3"}
                /\ lockOwner'[e] = NoWorker )
       /\ wpc'[e][w] \in IOPositions => lockOwner'[e] # w]_vars

\* one worker is inside the third block, about to increment the counter, while
\* the other worker waits for the lock with its own record already written
C19_Witness ==
  \E e \in Engines : \E w1, w2 \in Workers :
    /\ w1 # w2
    /\ lockOwner[e] = w1 /\ wpc[e][w1] = "in3"
    /\ wpc[e][w2] = "lock3"
    /\ Len(pages) = 2 /\ pageCount[e] = 0

\* the number of issues of a severity in an issues list
CountOf(issues, severity) ==
  Cardinality({ k \in 1..Len(issues) : issues[k].severity = severity })

\* 100 - 15*c - 7*w - 2*i for the issues list
RawScore(issues) ==
  100 - 15 * CountOf(issues, "critical") - 7 * CountOf(issues, "warning")
      - 2 * CountOf(issues, "info")

\* C20: the score of a record is max(0, 100 - 15*c - 7*w - 2*i) for the numbers
\* c, w, i of critical, warning and info issues of its issues list, and so an
\* integer in 0..100.
C20_ScoreFormula ==
  fnRes # << >>
    => /\ fnRes[1] = (IF RawScore(fnArg) < 0 THEN 0 ELSE RawScore(fnArg))
       /\ fnRes[1] \in 0..100

\* a score has been computed for a list whose deductions exceed 100: it is 0
C20_Witness ==
  /\ fnRes = << 0 >>
  /\ RawScore(fnArg) < 0
  /\ CountOf(fnArg, "warning") >= 1

\* C21: every issue type has one severity across the system: the severity of an
\* issue group in the summary equals the severity carried by each of the issues
\* tallied under the group's type.
C21_OneSeverityPerType ==
  fnRes # << >>
    => \A g \in fnRes[1].issue_groups : \A sl \in IssueSlots(fnArg) :
         SlotIssue(fnArg, sl).type = g.category
           => SlotIssue(fnArg, sl).severity = g.severity

\* the title issues the claim names for a title of n characters
TitleIssuesFor(n) ==
  IF n = 0 THEN << Issue("critical", "missing_title") >>
  ELSE IF n <= 29 THEN << Issue("warning", "short_title") >>
  ELSE IF n <= 60 THEN << >>
  ELSE << Issue("warning", "long_title") >>

\* C22: for a title of n characters (n = 0 without a title) the analyzer emits
\* missing_title for n = 0, short_title for 1..29, nothing for 30..60 and
\* long_title from 61 on, and never two title issues on one page.
C22_TitleThresholds ==
  fnRes # << >>
    => /\ fnRes[1].title_length = (IF fnArg.tag THEN Len(Strip(fnArg.text)) ELSE 0)
       /\ fnRes[1].issues = TitleIssuesFor(fnRes[1].title_length)
       /\ Len(fnRes[1].issues) <= 1

\* the title of exactly 30 characters has been analyzed (no issue), padded with
\* blanks in the page
C22_Witness ==
  /\ fnRes # << >>
  /\ fnArg.tag /\ Len(fnArg.text) = 32
  /\ fnRes[1].title_length = 30
  /\ fnRes[1].issues = << >>

\* the 2xx pages of the rows that carry the title
SharedBy(rows, title) ==
  { k \in 1..Len(rows) :
      rows[k].status_code \in 200..299 /\ rows[k].title = title }

\* the issues of a severity on the 2xx pages of the rows
SeverityCount(rows, severity) ==
  Cardinality({ sl \in (1..Len(rows)) \X (1..MaxIssues) :
                  /\ rows[sl[1]].status_code \in 200..299
                  /\ sl[2] <= Len(rows[sl[1]].issues)
                  /\ rows[sl[1]].issues[sl[2]].severity = severity })

\* C23: duplicate_titles holds exactly one group per title shared by more than
\* one content page (2xx), its count is the number of those pages and it lists
\* each of them once; pages with another status enter no group, and the groups
\* add nothing to the critical, warning and info tallies.
C23_DuplicateTitleGroups ==
  fnRes # << >>
    => LET dup == fnRes[1].duplicate_titles
       IN  /\ \A k \in 1..Len(fnArg) :
                (fnArg[k].title # << >> /\ Cardinality(SharedBy(fnArg, fnArg[k].title)) > 1)
                  <=> (\E g \in dup : g.value = fnArg[k].title)
           /\ \A g \in dup :
                /\ g.pages = SharedBy(fnArg, g.value)
                /\ g.count = Cardinality(g.pages)
                /\ \A h \in dup : h.value = g.value => h = g
           /\ fnRes[1].critical_issues = SeverityCount(fnArg, "critical")
           /\ fnRes[1].warnings = SeverityCount(fnArg, "warning")
           /\ fnRes[1].info_issues = SeverityCount(fnArg, "info")

\* two content pages and an error page share a title: the summary holds one
\* group of the two content pages, and the warnings are those of the pages
C23_Witness ==
  /\ fnRes # << >>
  /\ Len(fnArg) = 3
  /\ \A k \in 1..3 : fnArg[k].title = <<"t">>
  /\ fnArg[1].status_code = 200 /\ fnArg[2].status_code = 404 /\ fnArg[3].status_code = 200
  /\ fnArg[1].issues # << >>
  /\ fnRes[1].duplicate_titles = { [value |-> <<"t">>, pages |-> {1, 3}, count |-> 2] }
  /\ fnRes[1].warnings = Cardinality({ k \in {1, 3} : fnArg[k].issues # << >> })

\* C24: thin_content_pages is exactly the set of content pages (2xx) with a word
\* count below 300, a word count of 0 included; low_text_ratio_pages is exactly
\* the set of content pages with a code-to-text ratio below 10; slow_pages is
\* taken over all pages.
C24_ContentStatistics ==
  fnRes # << >>
    => /\ fnRes[1].thin_content_pages =
            { k \in 1..Len(fnArg) :
                fnArg[k].status_code \in 200..299 /\ fnArg[k].word_count < 300 }
       /\ fnRes[1].low_text_ratio_pages =
            { k \in 1..Len(fnArg) :
                /\ fnArg[k].status_code \in 200..299
                /\ fnArg[k].code_to_text_ratio # NoValue
                /\ fnArg[k].code_to_text_ratio < 10 }
       /\ fnRes[1].slow_pages = { k \in 1..Len(fnArg) : fnArg[k].response_time > 3 }

\* C25: the deduplication key is idempotent: _normalize_url applied to a key
\* returns the key, for every URL string, hosts with a repeated "www." prefix
\* and strings without a scheme included.
C25_NormalizeIdempotent ==
  fnRes # << >> => fnRes[2] = fnRes[1]

\* the positions of the User-agent lines, and of the rule lines with a pattern
AgentLines(txt) == { k \in 1..Len(txt) : txt[k].key = "user-agent" }
PatternLines(txt) ==
  { k \in 1..Len(txt) : txt[k].key \in {"allow", "disallow"} /\ txt[k].value # << >> }

\* the values of a list
Values(list) == { list[k] : k \in 1..Len(list) }

\* C26: consecutive User-agent lines with no rule line between them form one
\* group: every Disallow and Allow line that follows is recorded for each of
\* those agents, and a Disallow of a group that holds "*" (or the crawler's own
\* name) is disallowed for the crawler itself.
C26_AgentLinesGroup ==
  fnRes # << >>
    => \A r \in PatternLines(fnArg) :
         /\ \A a \in AgentLines(fnArg) :
              LET key == LowerStr(fnArg[a].value)
              IN  /\ key \in DOMAIN fnRes[1].rules
                  /\ fnArg[r].value \in
                       Values(IF fnArg[r].key = "allow" THEN fnRes[1].rules[key].allow
                              ELSE fnRes[1].rules[key].disallow)
         /\ ( /\ fnArg[r].key = "disallow"
              /\ \E a \in AgentLines(fnArg) : fnArg[a].value \in {Star, OwnAgent} )
              => fnArg[r].value \in Values(fnRes[1].disallowed)

\* the crawl's effective base domain: the normalized host of the URL the start
\* URL resolves to
EffectiveDomain == NormalizeDomain(UrlParse(SiteResolved(site)).netloc)

Holding(e) == { w \in Workers : InTry(wpc[e][w]) }

\* C28: every dequeued URL is acknowledged exactly once on every path and the
\* links of a page are enqueued before its acknowledgement: while run() waits on
\* queue.join() the queue's count of unfinished items is the number of queued
\* URLs plus the number of workers holding one; so when the wait returns (not by
\* the timeout) the queue is empty and no worker holds a URL.
C28_AcknowledgedOnce ==
  [][\A e \in Engines :
       /\ runpc'[e] = "join"
            => unfinished'[e] = Len(queue'[e]) + Cardinality({ w \in Workers : InTry(wpc'[e][w]) })
       /\ (runpc[e] = "join" /\ runpc'[e] = "gather" /\ ~timedOut')
            => queue[e] = << >> /\ Holding(e) = {}]_vars

\* on site "robots" /p/b was dropped by the robots test and /q/a by a transport
\* error; both were acknowledged and the drain wait has returned
C28_Witness ==
  /\ site = "robots"
  /\ faults >= 1 /\ ~timedOut
  /\ \E e \in Engines :
       /\ runpc[e] = "gather" /\ ~stopped[e] /\ ~resumeFlag[e]
       /\ {NormalizeUrl(U_qa), NormalizeUrl(U_pb)} \subseteq visited[e]
       /\ Len(pages) = 1
       /\ unfinished[e] = 0 /\ queue[e] = << >>

\* C29: for the crawl id at most one engine instance is running at any time and
\* the registry entry refers to it: two resume requests on a stopped crawl never
\* yield two running engines, and an exiting engine never removes the entry of
\* another engine.
C29_OneEngineRegistered ==
  /\ Cardinality({ e \in Engines : Alive(e) }) <= 1
  /\ \A e \in Engines : Alive(e) => registry = e

\* C30: a pause or resume-from-paused request that races with the engine's exit
\* never overwrites the final status the engine has stored; equivalently,
\* whenever the stored status is "paused" an engine of the crawl is registered,
\* so the crawl can still be resumed.
C30_PausedHasEngine ==
  status = "paused" => registry # NoEngine

====
